---- MODULE Spec2Model ----
(***************************************************************************)
(* Gesture data collector: the frame codec (transform_value,               *)
(* parse_frame_data, convert_frame_data), the live plotter's rolling       *)
(* windows (FingerWindow, LivePlotter) and the glove recording buffers     *)
(* (GloveDevice, data_handler).                                            *)
(*                                                                         *)
(* Numbers.  Python floats are kept exactly, as integer numerators over    *)
(* the common denominator DEN = 4096 * 41 = 167936: x / 4096.0 is          *)
(* x * 41 / DEN and x / 32.8 is x * 5120 / DEN.                            *)
(***************************************************************************)
EXTENDS Integers, Sequences, FiniteSets, TLC

\* ---------------------------------------------------------------- constants

EXPECTED_FRAME_LENGTH == 36

BUTTON_TRIGGER == 64

FRAME_LEN == 36

SIGN_THRESHOLD == 32768

WRAP == 65536

ACC_DIV == 4096

GYRO_DIV_X10 == 328

max_frames == 200

maxlen == 500

UPDATE_EVERY == 10

\* The debounce of 1.0 s and the sleep of 0.5 s, in ticks of half a second.
DEBOUNCE_TICKS == 2

SLEEP_TICKS == 1

DEN == ACC_DIV * (GYRO_DIV_X10 \div 8)

FINGER_NAMES ==
    <<"IndexFinger", "MiddleFinger", "RingFinger", "LittleFinger", "Thumb", "Palm">>

Fingers == {FINGER_NAMES[i] : i \in 1..Len(FINGER_NAMES)}

Hands == {"Left", "Right"}

Min(a, b) == IF a < b THEN a ELSE b

Max(a, b) == IF a > b THEN a ELSE b

StorageKeys == {"left_acc", "left_gyro", "right_acc", "right_gyro"}

\* ------------------------------------------------------------ Python values
\* A value handed to the codec: an int, None, a non-numeric string, or an int
\* too large for a float.

PyInt(n) == [kind |-> "int", v |-> n]

PyNone == [kind |-> "none", v |-> 0]

PyText == [kind |-> "text", v |-> 0]

PyHuge == [kind |-> "huge", v |-> 0]

\* A float that json.load read from a number with a fraction: v in thousandths.
PyFloat(n) == [kind |-> "float", v |-> n]

\* float(val): the number, or the exception float() raises.
float_(val) ==
    CASE val.kind = "int"  -> [exc |-> "no", v |-> val.v]
      [] val.kind = "none" -> [exc |-> "TypeError", v |-> 0]
      [] val.kind = "text" -> [exc |-> "ValueError", v |-> 0]
      [] val.kind = "huge" -> [exc |-> "OverflowError", v |-> 0]

\* What a call gives: a float (numerator over DEN), None, or a raised exception.
Value(x) == [tag |-> "val", val |-> x]

NoneResult == [tag |-> "none", val |-> 0]

Raised == [tag |-> "raise", val |-> 0]

\* ------------------------------------------------------------------- codec

Scale_gt(val, is_accelerometer) ==
    IF is_accelerometer
    THEN (IF val > SIGN_THRESHOLD THEN val - WRAP ELSE val) * (DEN \div ACC_DIV)
    ELSE (IF val > SIGN_THRESHOLD THEN val - WRAP ELSE val) * ((10 * DEN) \div GYRO_DIV_X10)

\* The arithmetic of transform_value (both branches of is_accelerometer) once float(val) succeeded.
Scale(val, is_accelerometer) ==
    IF is_accelerometer
    THEN (IF val >= SIGN_THRESHOLD THEN val - WRAP ELSE val) * (DEN \div ACC_DIV)
    ELSE (IF val >= SIGN_THRESHOLD THEN val - WRAP ELSE val) * ((10 * DEN) \div GYRO_DIV_X10)

\* LivePlotter.transform_value: except (ValueError, TypeError) -> None.
transform_value(val, is_accelerometer) ==
    LET f == float_(val) IN
    IF f.exc = "no" THEN Value(Scale(f.v, is_accelerometer))
    ELSE IF f.exc \in {"ValueError", "TypeError"} THEN NoneResult
    ELSE Raised

\* plot_from_json.transform_value and advanced_plotter.transform_value:
\* bare except -> None.
transform_value_json(val, is_accelerometer) ==
    LET f == float_(val) IN
    IF f.exc = "no" THEN Value(Scale(f.v, is_accelerometer))
    ELSE NoneResult

\* ------------------------------------------------------------ frame split

\* The raw positions of unit number i (1-based), as parse_frame_data and
\* convert_frame_data slice them: start_idx = (i - 1) * 6 counted from 0.
start_idx_5(i) == (i - 1) * 5

start_idx(i) == (i - 1) * 6

NoParse == [ok |-> FALSE, units |-> << >>]

\* LivePlotter.parse_frame_data: None unless len(data) == 36, else one entry per
\* finger, in the insertion order of the dict.
parse_frame_data(data) ==
    IF Len(data) # FRAME_LEN THEN NoParse
    ELSE [ok |-> TRUE,
          units |-> [i \in 1..Len(FINGER_NAMES) |->
                       [finger   |-> FINGER_NAMES[i],
                        acc_raw  |-> <<data[start_idx(i) + 1], data[start_idx(i) + 2],
                                       data[start_idx(i) + 3]>>,
                        gyro_raw |-> <<data[start_idx(i) + 4], data[start_idx(i) + 5],
                                       data[start_idx(i) + 6]>>]]]

\* One frame of plot_from_json.convert_frame_data: skipped unless len(frame) == 36,
\* else the acc and gyro triples of each finger; decoded counts the
\* transform_value calls made for the frame.
convert_frame(frame) ==
    IF Len(frame) # FRAME_LEN THEN [ok |-> FALSE, units |-> << >>, decoded |-> 0]
    ELSE [ok |-> TRUE,
          units |-> [i \in 1..Len(FINGER_NAMES) |->
                       [finger |-> FINGER_NAMES[i],
                        acc  |-> [j \in 1..3 |->
                                    transform_value_json(frame[start_idx(i) + j], TRUE)],
                        gyro |-> [j \in 1..3 |->
                                    transform_value_json(frame[start_idx(i) + 3 + j], FALSE)]]],
          decoded |-> 6 * Len(FINGER_NAMES)]

\* ------------------------------------------------------- saving and loading

\* A Python list of Python values.
PyList(items) == [kind |-> "list", v |-> items]

\* A token of JSON text: "[", "]", a number, null or a string.
Token(t, n) == [t |-> t, n |-> n]

RECURSIVE json_dumps(_)

RECURSIVE dumps_items(_, _)

\* The text of items i.. of a list, one after the other.
dumps_items(items, i) ==
    IF i > Len(items) THEN << >>
    ELSE json_dumps(items[i]) \o dumps_items(items, i + 1)

\* json.dump of a value: the text as its sequence of tokens.
json_dumps(x) ==
    CASE x.kind = "list" -> <<Token("[", 0)>> \o dumps_items(x.v, 1) \o <<Token("]", 0)>>
      [] x.kind = "int"  -> <<Token("number", x.v)>>
      [] x.kind = "none" -> <<Token("null", 0)>>
      [] OTHER           -> <<Token("string", 0)>>

RECURSIVE loads_value(_, _)

RECURSIVE loads_items(_, _, _)

\* The items of a list from position pos on, up to its closing bracket.
loads_items(text, pos, acc) ==
    IF text[pos].t = "]" THEN [value |-> PyList(acc), next |-> pos + 1]
    ELSE LET item == loads_value(text, pos)
         IN  loads_items(text, item.next, Append(acc, item.value))

\* The value that starts at position pos of the text, and where the text goes on.
loads_value(text, pos) ==
    CASE text[pos].t = "["      -> loads_items(text, pos + 1, << >>)
      [] text[pos].t = "number" -> [value |-> PyInt(text[pos].n), next |-> pos + 1]
      [] text[pos].t = "null"   -> [value |-> PyNone, next |-> pos + 1]
      [] OTHER                  -> [value |-> PyText, next |-> pos + 1]

\* json.load of a text.
json_loads(text) == loads_value(text, 1).value

\* The file save_gesture writes: gesture_recording with each hand's frames
\* wrapped in one more list, as JSON text.
save_gesture(left_data, right_data) ==
    [leftHandDataList  |-> json_dumps(PyList(<<left_data>>)),
     rightHandDataList |-> json_dumps(PyList(<<right_data>>))]

first_item_whole(hand_data_list) == hand_data_list

\* gesture_recording.get(key, [[]])[0] of load_gesture_data.
first_item(hand_data_list) == hand_data_list.v[1]

\* load_gesture_data: the frames of each hand as read from the file.
load_gesture_data(file) ==
    [left_hand_data  |-> first_item(json_loads(file.leftHandDataList)),
     right_hand_data |-> first_item(json_loads(file.rightHandDataList))]

\* plot_from_json.convert_frame_data: per finger the acc and the gyro series,
\* one entry for every frame of length 36, in the order of the frames.
convert_frame_data(raw_frames) ==
    LET converted == SelectSeq([k \in 1..Len(raw_frames.v) |-> convert_frame(raw_frames.v[k].v)],
                               LAMBDA c : c.ok)
    IN  [i \in 1..Len(FINGER_NAMES) |->
            [finger |-> FINGER_NAMES[i],
             acc    |-> [k \in 1..Len(converted) |-> converted[k].units[i].acc],
             gyro   |-> [k \in 1..Len(converted) |-> converted[k].units[i].gyro]]]

\* ------------------------------------------------------ flatten_hand_data

\* isinstance(x, (int, float))
is_number(x) == x.kind \in {"int", "huge", "float"}

is_frame_by_length(item) == Len(item.v) = FRAME_LEN

\* len(item) == 36 and all(isinstance(x, (int, float)) for x in item)
is_frame(item) ==
    /\ Len(item.v) = FRAME_LEN
    /\ \A i \in 1..Len(item.v) : is_number(item.v[i])

RECURSIVE flatten_hand_data(_)

RECURSIVE flatten_items(_, _)

\* The loop of flatten_hand_data from item i on: a list item is appended when it
\* is a frame and flattened otherwise; any other item is passed over.
flatten_items(items, i) ==
    IF i > Len(items) THEN << >>
    ELSE (IF items[i].kind = "list"
          THEN (IF is_frame(items[i]) THEN <<items[i]>> ELSE flatten_hand_data(items[i]))
          ELSE << >>) \o flatten_items(items, i + 1)

\* flatten_hand_data of advanced_plotter and of plot_from_json (the same text).
flatten_hand_data(nested_list) ==
    IF nested_list.kind = "list" THEN flatten_items(nested_list.v, 1) ELSE << >>

\* -------------------------------------------------------- comparison tables

COMPONENT_NAMES == <<"AccX", "AccY", "AccZ", "GyroX", "GyroY", "GyroZ">>

\* The keys parse_hand_data gives a frame, f"{finger}_{comp}", in its order.
FrameKeys ==
    [c \in 1..(Len(FINGER_NAMES) * Len(COMPONENT_NAMES)) |->
        [finger |-> FINGER_NAMES[((c - 1) \div Len(COMPONENT_NAMES)) + 1],
         comp   |-> COMPONENT_NAMES[((c - 1) % Len(COMPONENT_NAMES)) + 1]]]

\* A column name of the table: a frame key and what json_to_dataframe adds to it.
Column(key, suffix) == [finger |-> key.finger, comp |-> key.comp, suffix |-> suffix]

FrameIndex == [finger |-> "", comp |-> "FrameIndex", suffix |-> ""]

\* The four columns json_to_dataframe makes of one left column, in its order.
Suffixes == <<"_Left", "_Right", "_Left_Converted", "_Right_Converted">>

\* A cell of a table: a raw number, a converted number (tag "val"), None, or
\* the NaN that reindex fills a missing row with.
RawCell(n) == [tag |-> "raw", val |-> n]

NaN == [tag |-> "nan", val |-> 0]

\* "Acc" in col
is_acc_column(key) == key.comp \in {"AccX", "AccY", "AccZ"}

\* df[col].apply(lambda x: transform_value(x, ...)): float(nan) is nan, no
\* comparison with nan holds, and nan divided is nan.
apply_transform(cell, is_accelerometer) ==
    IF cell.tag = "nan" THEN NaN
    ELSE transform_value_json(PyInt(cell.val), is_accelerometer)

\* pd.DataFrame(parse_hand_data(frames)).reindex(range(num_rows)): the cell of
\* column c (arr[start_idx + j]) in row r.
reindexed(frames, c, r) ==
    IF r <= Len(frames) THEN RawCell(frames[r].v[c].v) ELSE NaN

\* advanced_plotter.json_to_dataframe: the rows, the column names in order and
\* the cells of each column.  The columns are made from those of the left frame.
json_to_dataframe(file) ==
    LET left_hand_cleaned  == flatten_hand_data(json_loads(file.leftHandDataList))
        right_hand_cleaned == flatten_hand_data(json_loads(file.rightHandDataList))
        num_rows == Max(Len(left_hand_cleaned), Len(right_hand_cleaned))
        left_columns == IF Len(left_hand_cleaned) = 0 THEN 0 ELSE Len(FrameKeys)
        in_right == Len(right_hand_cleaned) > 0
        width == Len(Suffixes) * left_columns
        key_at(n) == ((n - 1) \div Len(Suffixes)) + 1
        suffix_at(n) == ((n - 1) % Len(Suffixes)) + 1
        cell(n, r) ==
            LET c == key_at(n)
                q == suffix_at(n)
                acc == is_acc_column(FrameKeys[c])
            IN  CASE q = 1 -> reindexed(left_hand_cleaned, c, r)
                  [] q = 2 -> IF in_right THEN reindexed(right_hand_cleaned, c, r)
                              ELSE NoneResult
                  [] q = 3 -> apply_transform(reindexed(left_hand_cleaned, c, r), acc)
                  [] q = 4 -> IF in_right
                              THEN apply_transform(reindexed(right_hand_cleaned, c, r), acc)
                              ELSE NoneResult
    IN  [num_rows |-> num_rows,
         columns  |-> [n \in 1..(width + 1) |->
                          IF n > width THEN FrameIndex
                          ELSE Column(FrameKeys[key_at(n)], Suffixes[suffix_at(n)])],
         cells    |-> [n \in 1..(width + 1) |->
                          [r \in 1..num_rows |->
                              IF n > width THEN RawCell(r - 1) ELSE cell(n, r)]]]

\* f"_{hand}" in col and "Converted" in col
is_converted_of(col, hand) ==
    \/ hand = "Left" /\ col.suffix = "_Left_Converted"
    \/ hand = "Right" /\ col.suffix = "_Right_Converted"

get_filtered_columns(df, hand) ==
    SelectSeq(df.columns, LAMBDA col : col # FrameIndex /\ is_converted_of(col, hand))

\* The short names of the fingers, in the order sorted() gives them.
short_names ==
    [IndexFinger |-> "Index", MiddleFinger |-> "Middle", RingFinger |-> "Ring",
     LittleFinger |-> "Little", Thumb |-> "Thumb", Palm |-> "Palm"]

SortedShortNames == <<"Index", "Little", "Middle", "Palm", "Ring", "Thumb">>

\* extract_finger_names: the short names of the fingers of the columns, sorted,
\* to be joined by "_".
extract_finger_names(columns) ==
    SelectSeq(SortedShortNames,
              LAMBDA short : \E n \in 1..Len(columns) : short_names[columns[n].finger] = short)

\* "Acc_Gyro", "Acc" or "Gyro", by what the selected columns hold.
sensor_type(selected_columns) ==
    LET any_acc  == \E n \in 1..Len(selected_columns) : is_acc_column(selected_columns[n])
        any_gyro == \E n \in 1..Len(selected_columns) : ~is_acc_column(selected_columns[n])
    IN  IF any_acc /\ any_gyro THEN "Acc_Gyro" ELSE IF any_acc THEN "Acc" ELSE "Gyro"

\* A file name as the parts its f-string is made of; a part the f-string does
\* not have is the empty sequence.
NoFilename ==
    [prefix |-> "", json_names |-> << >>, hand |-> "", finger_str |-> << >>,
     sensor_type |-> "", cols |-> << >>]

\* f"4way_compare_{hand}_{finger_str}_{sensor_type}_cols{start_idx}-{end_idx}.png"
filename_4way(hand, selected_columns, column_range) ==
    [prefix |-> "4way_compare", json_names |-> << >>, hand |-> hand,
     finger_str |-> extract_finger_names(selected_columns),
     sensor_type |-> sensor_type(selected_columns), cols |-> column_range]

\* f"2way_{json1_name}_vs_{json2_name}_{hand}_{finger_str}_{sensor_type}.png"
filename_2way(json1_name, json2_name, hand, selected_columns) ==
    [prefix |-> "2way", json_names |-> <<json1_name, json2_name>>, hand |-> hand,
     finger_str |-> extract_finger_names(selected_columns),
     sensor_type |-> sensor_type(selected_columns), cols |-> << >>]

NoImage ==
    [written |-> FALSE, error |-> "", selected_columns |-> << >>, subplots |-> << >>,
     filename |-> NoFilename]

\* What plot_2way_comparison and plot_4way_comparison do with the tables: the
\* columns of the first table, the range check, the slice, and per subplot the
\* selected columns that table has.
plot_comparison(dfs, column_range, hand) ==
    LET columns == get_filtered_columns(dfs[1], hand)
        start_idx_ == column_range[1]
        end_idx == column_range[2]
        selected_columns == SubSeq(columns, start_idx_, end_idx)
    IN  IF Len(columns) = 0 THEN [NoImage EXCEPT !.error = "No converted columns"]
        ELSE IF start_idx_ < 1 \/ end_idx > Len(columns) \/ start_idx_ > end_idx
        THEN [NoImage EXCEPT !.error = "Invalid range"]
        ELSE [written |-> TRUE, error |-> "", selected_columns |-> selected_columns,
              filename |-> NoFilename,
              subplots |-> [k \in 1..Len(dfs) |->
                  SelectSeq(selected_columns,
                            LAMBDA col : \E n \in 1..Len(dfs[k].columns) :
                                             dfs[k].columns[n] = col)]]

\* ------------------------------------------------------------ file names

\* A name is the sequence of its characters.  "U+00E9" and "U+4E2D" stand for a
\* letter with an accent and a Han character, "U+0009" for a tab.
Letters ==
    {"a", "e", "g", "i", "n", "o", "r", "s", "M", "S", "Z", "U+00E9", "U+4E2D"}

Digits == {"0", "1", "7"}

\* c.isalnum()
isalnum(c) == c \in Letters \cup Digits

replace_nothing(name) == name

\* name.replace(" ", "_")
replace_spaces(name) == [i \in 1..Len(name) |-> IF name[i] = " " THEN "_" ELSE name[i]]

\* "".join(c for c in sanitized if c.isalnum() or c in ['_', '-'])
sanitize_name(name) ==
    SelectSeq(replace_spaces(name), LAMBDA c : isalnum(c) \/ c \in {"_", "-"})

\* ------------------------------------------------------------ FingerWindow

deque_append_unbounded(buf, x) == Append(buf, x)

\* deque(maxlen=500).append
deque_append(buf, x) ==
    IF Len(buf) + 1 > maxlen THEN Append(Tail(buf), x) ELSE Append(buf, x)

storage_key(hand) == IF hand = "Left" THEN "left" ELSE "right"

acc_key_left(hand) == "left_acc"

acc_key(hand) == IF hand = "Left" THEN "left_acc" ELSE "right_acc"

gyro_key(hand) == IF hand = "Left" THEN "left_gyro" ELSE "right_gyro"

AllNotNone_first(triple) == triple[1].tag # "none"

\* all(v is not None for v in triple)
AllNotNone(triple) == \A j \in 1..Len(triple) : triple[j].tag # "none"

Floats(triple) == [j \in 1..Len(triple) |-> triple[j].val]

EmptyLine == [start_frame |-> 0, end_frame |-> 0, ydata |-> << >>]

\* FingerWindow.__init__ and _init_window.  Of a plot the model keeps what
\* set_data gives its lines: the frame range and the rows drawn.  Axis limits and
\* figure handles are left to the plotting backend.
NewFingerWindow ==
    [data         |-> [k \in StorageKeys |-> << >>],
     total_frames |-> [k \in StorageKeys |-> 0],
     lines        |-> [k \in StorageKeys |-> EmptyLine]]

\* FingerWindow.add_data
FingerWindow_add_data(w, hand, acc_data, gyro_data) ==
    LET w1 == IF AllNotNone(acc_data)
              THEN [w EXCEPT !.data[acc_key(hand)] = deque_append(@, Floats(acc_data)),
                             !.total_frames[acc_key(hand)] = @ + 1]
              ELSE w
    IN  IF AllNotNone(gyro_data)
        THEN [w1 EXCEPT !.data[gyro_key(hand)] = deque_append(@, Floats(gyro_data)),
                        !.total_frames[gyro_key(hand)] = @ + 1]
        ELSE w1

\* The visible range update() computes for one storage key.
start_frame(total) == IF total > max_frames THEN total - max_frames ELSE 0

end_frame(total) == total

display_data_head(buf, total) ==
    IF total > max_frames
    THEN (IF Len(buf) > max_frames THEN SubSeq(buf, 1, max_frames) ELSE buf)
    ELSE buf

\* acc_array[-max_frames:] when total > max_frames, else the whole array.
display_data(buf, total) ==
    IF total > max_frames
    THEN (IF Len(buf) > max_frames
          THEN SubSeq(buf, Len(buf) - max_frames + 1, Len(buf))
          ELSE buf)
    ELSE buf

\* FingerWindow.update: the four plots, each only when its buffer is not empty.
FingerWindow_update(w) ==
    [w EXCEPT
       !.lines = [k \in StorageKeys |->
                    IF Len(w.data[k]) > 0
                    THEN [start_frame |-> start_frame(w.total_frames[k]),
                          end_frame   |-> end_frame(w.total_frames[k]),
                          ydata       |-> display_data(w.data[k], w.total_frames[k])]
                    ELSE w.lines[k]]]

FingerWindow_clear_data_only(w) ==
    [w EXCEPT !.data = [k \in StorageKeys |-> << >>],
              !.lines = [k \in StorageKeys |-> EmptyLine]]

\* FingerWindow.clear
FingerWindow_clear(w) ==
    [w EXCEPT !.data = [k \in StorageKeys |-> << >>],
              !.total_frames = [k \in StorageKeys |-> 0],
              !.lines = [k \in StorageKeys |-> EmptyLine]]

\* ------------------------------------------------------------- LivePlotter

\* LivePlotter.__init__
NewLivePlotter ==
    [is_running         |-> FALSE,
     finger_windows     |-> [f \in Fingers |-> NewFingerWindow],
     first_frame_logged |-> {}]

ConvertTriple(raw3, is_accelerometer) ==
    [j \in 1..3 |-> transform_value(raw3[j], is_accelerometer)]

HasRaise(triple) == \E j \in 1..Len(triple) : triple[j].tag = "raise"

\* The loop of LivePlotter.add_data over FINGER_NAMES, from finger number i on:
\* a conversion that raises ends the call there, the fingers before it done.
RECURSIVE ProcessFingers(_, _, _, _)
ProcessFingers(i, fws, units, hand) ==
    IF i > Len(FINGER_NAMES) THEN [fws |-> fws, raised |-> FALSE]
    ELSE LET acc  == ConvertTriple(units[i].acc_raw, TRUE)
             gyro == ConvertTriple(units[i].gyro_raw, FALSE)
         IN  IF HasRaise(acc) \/ HasRaise(gyro) THEN [fws |-> fws, raised |-> TRUE]
             ELSE IF AllNotNone(acc) /\ AllNotNone(gyro)
             THEN ProcessFingers(i + 1,
                     [fws EXCEPT ![units[i].finger] =
                          FingerWindow_add_data(@, hand, acc, gyro)],
                     units, hand)
             ELSE ProcessFingers(i + 1, fws, units, hand)

\* The redraw test of LivePlotter.add_data.
redraw_due(fws) ==
    (Len(fws["IndexFinger"].data["left_acc"])
        + Len(fws["IndexFinger"].data["right_acc"])) % UPDATE_EVERY = 0

\* LivePlotter._update_all_displays
update_all_displays(fws) == [f \in Fingers |-> FingerWindow_update(fws[f])]

\* The first-frame debug print: formats transform_value(data[0]) and
\* transform_value(data[1]) with :.6f, which raises on None.
first_frame_raises(data) ==
    \/ transform_value(data[1], TRUE).tag # "val"
    \/ transform_value(data[2], TRUE).tag # "val"

\* LivePlotter.add_data: the plotter after the call, whether the call redrew,
\* whether it ended by an exception, and whether the frame passed validation.
LivePlotter_add_data(p, hand, data) ==
    LET same == [p |-> p, redraw |-> FALSE, raised |-> FALSE, valid |-> FALSE] IN
    IF Len(data) = 0 THEN same
    ELSE IF \A i \in 1..Len(data) : data[i] = PyInt(0) THEN same
    ELSE IF Len(data) # FRAME_LEN THEN same
    ELSE
      LET first  == hand \notin p.first_frame_logged
          p1     == [p EXCEPT !.first_frame_logged = @ \cup {hand}]
      IN
      IF first /\ first_frame_raises(data)
      THEN [p |-> p1, redraw |-> FALSE, raised |-> TRUE, valid |-> TRUE]
      ELSE
        LET frame_data == parse_frame_data(data) IN
        IF ~frame_data.ok THEN [same EXCEPT !.p = p1]
        ELSE
          LET done == ProcessFingers(1, p1.finger_windows, frame_data.units, hand)
              due  == ~done.raised /\ p1.is_running /\ redraw_due(done.fws)
          IN  [p      |-> [p1 EXCEPT !.finger_windows =
                               IF due THEN update_all_displays(done.fws) ELSE done.fws],
               redraw |-> due,
               raised |-> done.raised,
               valid  |-> TRUE]

\* LivePlotter.start
LivePlotter_start(p) ==
    [p EXCEPT !.is_running = TRUE,
              !.first_frame_logged = {},
              !.finger_windows = [f \in Fingers |-> FingerWindow_clear(p.finger_windows[f])]]

LivePlotter_stop_clearing(p) ==
    [p EXCEPT !.is_running = FALSE,
              !.finger_windows = [f \in Fingers |-> FingerWindow_clear(p.finger_windows[f])]]

\* LivePlotter.stop
LivePlotter_stop(p) == [p EXCEPT !.is_running = FALSE]

\* LivePlotter.clear
LivePlotter_clear(p) ==
    [p EXCEPT !.first_frame_logged = {},
              !.finger_windows = [f \in Fingers |-> FingerWindow_clear(p.finger_windows[f])]]

\* ------------------------------------------------- GloveDevice, BLEManager

\* GloveDevice.__init__
NewGloveDevice == [data_buffer |-> << >>, is_recording |-> FALSE, frame_count |-> 0]

\* struct.unpack('b'): a byte as a signed int8.
int8(b) == IF b >= 128 THEN b - 256 ELSE b

\* uint16_count = len(byte_buffer) // 2
uint16_count(data) == Len(data) \div 2

\* BLEManager._bytes_to_uint16_list: bytes -> int8 -> (val & 0xFF) -> '<H' pairs,
\* a trailing odd byte dropped.
bytes_to_uint16_list_be(data) ==
    [i \in 1..uint16_count(data) |-> 256 * data[2 * i - 1] + data[2 * i]]

bytes_to_uint16_list(data) ==
    LET byte_buffer == [i \in 1..Len(data) |-> int8(data[i]) % 256]
    IN  [i \in 1..uint16_count(data) |->
            byte_buffer[2 * i - 1] + 256 * byte_buffer[2 * i]]

is_button_press_single(data) == Len(data) = 1 /\ data[1] = BUTTON_TRIGGER

\* is_button_press of control_handler: [64] alone, or 64 anywhere in the payload.
is_button_press(data) ==
    \/ Len(data) = 1 /\ data[1] = BUTTON_TRIGGER
    \/ \E i \in 1..Len(data) : data[i] = BUTTON_TRIGGER

accepts_frame_at_least(uint16_array) == Len(uint16_array) >= EXPECTED_FRAME_LENGTH

\* The length test of data_handler.
accepts_frame(uint16_array) == Len(uint16_array) = EXPECTED_FRAME_LENGTH

\* data_handler for the glove of hand h: the glove and the live plotter after
\* the notification.
data_handler(g, attached, p, h, data) ==
    IF Len(data) = 1 /\ data[1] = BUTTON_TRIGGER THEN [glove |-> g, plotter |-> p]
    ELSE IF ~g.is_recording THEN [glove |-> g, plotter |-> p]
    ELSE LET uint16_array == bytes_to_uint16_list(data) IN
         IF accepts_frame(uint16_array)
         THEN [glove   |-> [g EXCEPT !.data_buffer = Append(@, uint16_array),
                                     !.frame_count = @ + 1],
               plotter |-> IF attached /\ p.is_running
                           THEN LivePlotter_add_data(p, h,
                                    [i \in 1..Len(uint16_array) |-> PyInt(uint16_array[i])]).p
                           ELSE p]
         ELSE [glove |-> g, plotter |-> p]

\* ------------------------------------------------------------------- state

VARIABLES
    c_raw,          \* decode: the raw value handed in
    c_acc,          \* decode: is_accelerometer
    c_out,          \* decode: the results of the implementations, or Pending
    s_frame,        \* split: the frame handed in
    s_out,          \* split: what parse_frame_data and convert_frame_data give
    live_plotter,   \* the LivePlotter object
    last_call,      \* the last LivePlotter call: its name, arguments and outcome
    clk,            \* per hand: well-formed frames fed since the last start/clear
    n_accepted,     \* per finger and storage key: samples fed since the last
                    \*   start/clear that the window had to accept
    since_redraw,   \* samples accepted by the IndexFinger windows since the last
                    \*   redraw, start or clear, counted while running
    redraw_gap,     \* since_redraw at the last redraw an accepted sample triggered
    stopped_adds,   \* add_data calls made while not running, since the last start
    n_defects,      \* frames with a non-numeric entry, and direct window calls,
                    \*   since the last start/clear
    glove,          \* per hand: the GloveDevice (data_buffer, is_recording, frame_count)
    plotter_attached, \* BLEManager.live_plotter is set
    button_callback,  \* BLEManager.button_callback is set
    recording_active, \* GestureCollectorApp.recording_active
    last_button_time, \* GestureCollectorApp.last_button_time, in ticks
    gesture_counter,  \* GestureCollectorApp.gesture_counter
    gesture_count,    \* DataProcessor.gesture_count
    files,          \* the gesture files of the session folder
    now,            \* time.time(), in ticks of half a second
    tasks,          \* the handle_button_press invocations in flight
    sent,           \* per hand: data notifications delivered so far
    last_notify,    \* the notification handled by the step that led here, where
                    \*   the specification follows single notifications
    arrived,        \* per hand: the payloads delivered while the glove recorded that
                    \*   are not [64] and hold 72 or 73 bytes, in arrival order
    json_file,      \* save and load: the streams handed to save_gesture, the text
                    \*   written and what the loader makes of it
    comparison,     \* comparison plots: the files, the range and the outcome
    flat,           \* flatten_hand_data: the structure handed in and the result
    sanitized,      \* _sanitize_name: the name handed in and the result
    connecting,     \* connect_glove: the attempts made and what it returned
    session         \* the menu loop: the gloves remembered, found and connected

codec_vars == <<c_raw, c_acc, c_out, s_frame, s_out>>

plot_vars == <<live_plotter, last_call, clk, n_accepted, since_redraw, redraw_gap,
               stopped_adds, n_defects>>

app_vars == <<recording_active, last_button_time, gesture_counter, gesture_count,
              files, now, tasks>>

ble_vars == <<glove, plotter_attached, button_callback, app_vars, sent>>

\* What the gloves-and-app specification leaves alone.
more_vars == <<sanitized, connecting, session>>

tool_vars == <<arrived, json_file, comparison, flat, more_vars>>

aux_vars == <<last_notify, tool_vars>>

vars == <<codec_vars, plot_vars, ble_vars, aux_vars>>

NoNotify == [kind |-> "none", hand |-> "Left", data |-> << >>, callback |-> FALSE]

NoJsonFile ==
    [stage |-> "idle", left_data |-> PyList(<< >>), right_data |-> PyList(<< >>),
     file |-> save_gesture(PyList(<< >>), PyList(<< >>)),
     left |-> convert_frame_data(PyList(<< >>)),
     right |-> convert_frame_data(PyList(<< >>))]

NoComparison ==
    [stage |-> "idle", way |-> 2, streams |-> << >>, json_files |-> << >>, hand |-> "Left",
     column_range |-> <<1, 1>>, dfs |-> << >>, image |-> NoImage]

NoFlat == [stage |-> "idle", nested_list |-> PyList(<< >>), result |-> << >>]

NoSanitized == [stage |-> "idle", name |-> << >>, result |-> << >>, again |-> << >>]

NoConnecting ==
    [pc |-> "idle", hand |-> "Left", retry_count |-> 0, attempt |-> 0, outcomes |-> << >>,
     result |-> FALSE]

\* The app before its first setup: not connected, no glove remembered (None).
\* A remembered glove is written as the number of the setup call that found it.
NoSession ==
    [calls |-> 0, connected |-> FALSE, left_glove |-> 0, right_glove |-> 0,
     named |-> FALSE, scans |-> << >>, connect_step |-> "none"]

MoreIdle ==
    /\ sanitized = NoSanitized
    /\ connecting = NoConnecting
    /\ session = NoSession

ToolIdle ==
    /\ arrived = [h \in Hands |-> << >>]
    /\ json_file = NoJsonFile
    /\ comparison = NoComparison
    /\ flat = NoFlat
    /\ MoreIdle

NoCall == [op |-> "none", hand |-> "Left", data |-> << >>,
           finger |-> "", acc_data |-> << >>, gyro_data |-> << >>,
           redraw |-> FALSE, raised |-> FALSE, valid |-> FALSE, had_data |-> FALSE]

SplitPending == [done |-> FALSE, parse |-> NoParse, conv |-> convert_frame(<< >>)]

DecodeIdle ==
    /\ c_raw = PyInt(0)
    /\ c_acc = TRUE
    /\ c_out = [live |-> NoneResult, json |-> NoneResult]

SplitIdle ==
    /\ s_frame = << >>
    /\ s_out = SplitPending

CodecIdle == DecodeIdle /\ SplitIdle

PlotIdle ==
    /\ live_plotter = NewLivePlotter
    /\ last_call = NoCall
    /\ clk = [h \in Hands |-> 0]
    /\ n_accepted = [f \in Fingers |-> [k \in StorageKeys |-> 0]]
    /\ since_redraw = 0
    /\ redraw_gap = 0
    /\ stopped_adds = 0
    /\ n_defects = 0

NoTask == [pc |-> "idle", wake |-> 0]

MaxTasks == 2

\* The app in setup_and_connect once both gloves are connected and subscribed:
\* a fresh DataProcessor, button_callback about to be set.
BleIdle ==
    /\ glove = [h \in Hands |-> NewGloveDevice]
    /\ plotter_attached = FALSE
    /\ button_callback = FALSE
    /\ recording_active = FALSE
    /\ last_button_time = 0
    /\ gesture_counter = 0
    /\ gesture_count = 0
    /\ files = {}
    /\ now = DEBOUNCE_TICKS
    /\ tasks = [t \in 1..MaxTasks |-> NoTask]
    /\ sent = [h \in Hands |-> 0]
    /\ last_notify = NoNotify

\* ------------------------------------------------- specification: decoding

Pending == [live |-> [tag |-> "pending", val |-> 0], json |-> [tag |-> "pending", val |-> 0]]

OutOfRange == 3

RawInputs ==
    {PyInt(n) : n \in (0 - OutOfRange)..(WRAP - 1 + OutOfRange)}
        \cup {PyNone, PyText, PyHuge}

InitDecode ==
    /\ c_raw \in RawInputs
    /\ c_acc \in BOOLEAN
    /\ c_out = Pending
    /\ SplitIdle
    /\ PlotIdle
    /\ BleIdle
    /\ ToolIdle

Decode ==
    /\ c_out.live.tag = "pending"
    /\ c_out' = [live |-> transform_value(c_raw, c_acc),
                 json |-> transform_value_json(c_raw, c_acc)]
    /\ UNCHANGED <<aux_vars, c_raw, c_acc, s_frame, s_out, plot_vars, ble_vars>>

NextDecode == Decode

SpecDecode == InitDecode /\ [][NextDecode]_vars

\* ---------------------------------------------- specification: frame split

MaxSeed == 12

\* Entry i of the frame a glove sends as its k-th.
RawAt(k, i) == PyInt((k * 91 + i * 1800) % WRAP)

FrameOfLen(k, n) == [i \in 1..n |-> RawAt(k, i)]

SplitLengths == {0, 1, FRAME_LEN - 1, FRAME_LEN, FRAME_LEN + 1, 2 * FRAME_LEN}

SplitFrames ==
    {FrameOfLen(k, n) : k \in 1..MaxSeed, n \in SplitLengths}
        \cup {[FrameOfLen(k, FRAME_LEN) EXCEPT ![pos] = PyNone] :
                  k \in 1..MaxSeed, pos \in {1, 18, FRAME_LEN}}

InitSplit ==
    /\ s_frame \in SplitFrames
    /\ s_out = SplitPending
    /\ DecodeIdle
    /\ PlotIdle
    /\ BleIdle
    /\ ToolIdle

Split ==
    /\ ~s_out.done
    /\ s_out' = [done |-> TRUE, parse |-> parse_frame_data(s_frame),
                 conv |-> convert_frame(s_frame)]
    /\ UNCHANGED <<aux_vars, c_raw, c_acc, c_out, s_frame, plot_vars, ble_vars>>

NextSplit == Split

SpecSplit == InitSplit /\ [][NextSplit]_vars

\* ------------------------------------------- specification: gloves and app

MaxSent == 2

MaxTime == 5

\* Byte i of the k-th notification of a glove.
PayloadBytes(k, n) == [i \in 1..n |-> (k * 37 + i * 11) % 256]

DataPayloads(k) ==
    {PayloadBytes(k, n) : n \in {0, 1, 2 * EXPECTED_FRAME_LENGTH - 2,
                                 2 * EXPECTED_FRAME_LENGTH, 2 * EXPECTED_FRAME_LENGTH + 1,
                                 2 * EXPECTED_FRAME_LENGTH + 2}}
        \cup {<<BUTTON_TRIGGER>>, [i \in 1..(2 * EXPECTED_FRAME_LENGTH) |-> 0]}

ControlPayloads == {<<BUTTON_TRIGGER>>, <<1, BUTTON_TRIGGER, 3>>, <<1, 2>>, << >>}

\* A data notification of the glove of hand h.
DataNotify ==
    \E h \in Hands :
        /\ sent[h] < MaxSent
        /\ \E data \in DataPayloads(sent[h] + 1) :
              LET r == data_handler(glove[h], plotter_attached, live_plotter, h, data)
              IN  /\ glove' = [glove EXCEPT ![h] = r.glove]
                  /\ live_plotter' = r.plotter
        /\ sent' = [sent EXCEPT ![h] = @ + 1]
        /\ last_notify' = NoNotify
        /\ UNCHANGED <<tool_vars, codec_vars, last_call, clk, n_accepted, since_redraw, redraw_gap,
                       stopped_adds, n_defects, plotter_attached, button_callback, app_vars>>

FreeTask(t) == tasks[t].pc = "idle" /\ \A u \in 1..(t - 1) : tasks[u].pc # "idle"

\* handle_button_press up to its first await: the debounce, then either the
\* clearing of both gloves before the START writes or the way to the STOP writes.
ButtonPress ==
    IF now - last_button_time < DEBOUNCE_TICKS
    THEN UNCHANGED <<glove, app_vars>>
    ELSE \E t \in 1..MaxTasks :
            /\ FreeTask(t)
            /\ last_button_time' = now
            /\ IF ~recording_active
               THEN /\ glove' = [h \in Hands |->
                                   [glove[h] EXCEPT !.data_buffer = << >>, !.frame_count = 0]]
                    /\ tasks' = [tasks EXCEPT ![t] = [pc |-> "start_left", wake |-> 0]]
               ELSE /\ glove' = glove
                    /\ tasks' = [tasks EXCEPT ![t] = [pc |-> "stop_left", wake |-> 0]]
            /\ UNCHANGED <<recording_active, gesture_counter, gesture_count, files, now>>

\* control_handler of the glove of hand h: a button press calls button_callback
\* for the Right glove only, and only once a callback is set.
ControlNotify ==
    \E h \in Hands, data \in ControlPayloads :
        /\ IF is_button_press(data) /\ h = "Right" /\ button_callback
           THEN ButtonPress
           ELSE UNCHANGED <<glove, app_vars>>
        /\ UNCHANGED <<aux_vars, codec_vars, plot_vars, plotter_attached, button_callback, sent>>

\* BLEManager.start_recording once the write has returned (ok) or raised.
start_recording(g, ok) ==
    IF ok THEN [g EXCEPT !.is_recording = TRUE, !.frame_count = 0] ELSE g

\* BLEManager.stop_recording once the write has returned (ok) or raised.
stop_recording(g, ok) ==
    IF ok THEN [g EXCEPT !.is_recording = FALSE] ELSE g

\* handle_button_press resumes after the write to one glove.
WriteDone ==
    \E t \in 1..MaxTasks, ok \in BOOLEAN :
        /\ tasks[t].pc \in {"start_left", "start_right", "stop_left", "stop_right"}
        /\ CASE tasks[t].pc = "start_left" ->
                  /\ glove' = [glove EXCEPT !["Left"] = start_recording(@, ok)]
                  /\ tasks' = [tasks EXCEPT ![t].pc = "start_right"]
                  /\ UNCHANGED recording_active
             [] tasks[t].pc = "start_right" ->
                  /\ glove' = [glove EXCEPT !["Right"] = start_recording(@, ok)]
                  /\ recording_active' = TRUE
                  /\ tasks' = [tasks EXCEPT ![t] = NoTask]
             [] tasks[t].pc = "stop_left" ->
                  /\ glove' = [glove EXCEPT !["Left"] = stop_recording(@, ok)]
                  /\ tasks' = [tasks EXCEPT ![t].pc = "stop_right"]
                  /\ UNCHANGED recording_active
             [] tasks[t].pc = "stop_right" ->
                  /\ glove' = [glove EXCEPT !["Right"] = stop_recording(@, ok)]
                  /\ recording_active' = FALSE
                  /\ tasks' = [tasks EXCEPT ![t] = [pc |-> "sleep", wake |-> now + SLEEP_TICKS]]
        /\ last_notify' = NoNotify
        /\ UNCHANGED <<tool_vars, codec_vars, plot_vars, plotter_attached, button_callback,
                       sent, last_button_time,
                       gesture_counter, gesture_count, files, now>>

CustomNames == {"", "wave"}

\* The filename save_gesture builds: the name and the timestamp to the second.
filename(custom_name, second) ==
    <<IF custom_name # "" THEN custom_name ELSE "gesture", second>>

write_file_left_only(folder, name, gesture_number, left_data, right_data) ==
    {f \in folder : f.filename # name}
        \cup {[filename |-> name, gesture_number |-> gesture_number,
               left |-> left_data, right |-> << >>]}

\* with open(filepath, 'w') as f: json.dump(...): the file of that name is
\* created, or replaced when the folder has one.
write_file(folder, name, gesture_number, left_data, right_data) ==
    {f \in folder : f.filename # name}
        \cup {[filename |-> name, gesture_number |-> gesture_number,
               left |-> left_data, right |-> right_data]}

\* handle_button_press after the sleep: the copies, and unless both are empty the
\* save (gesture_count is incremented before the write, gesture_counter after
\* it) and the clearing of both buffers.
Wake ==
    \E t \in 1..MaxTasks :
        /\ tasks[t].pc = "sleep"
        /\ now >= tasks[t].wake
        /\ tasks' = [tasks EXCEPT ![t] = NoTask]
        /\ LET left_data  == glove["Left"].data_buffer
               right_data == glove["Right"].data_buffer
           IN  IF Len(left_data) = 0 /\ Len(right_data) = 0
               THEN UNCHANGED <<glove, gesture_counter, gesture_count, files>>
               ELSE \E custom_name \in CustomNames, written \in BOOLEAN :
                       /\ gesture_count' = gesture_count + 1
                       /\ IF written
                          THEN /\ files' = write_file(files, filename(custom_name, now \div 2),
                                                      gesture_count + 1, left_data, right_data)
                               /\ gesture_counter' = gesture_counter + 1
                          ELSE UNCHANGED <<files, gesture_counter>>
                       /\ glove' = [h \in Hands |-> [glove[h] EXCEPT !.data_buffer = << >>]]
        /\ last_notify' = NoNotify
        /\ UNCHANGED <<tool_vars, codec_vars, plot_vars, plotter_attached, button_callback,
                       sent, recording_active,
                       last_button_time, now>>

Tick ==
    /\ now < MaxTime
    /\ now' = now + 1
    /\ last_notify' = NoNotify
    /\ UNCHANGED <<tool_vars, codec_vars, plot_vars, glove, plotter_attached, button_callback,
                   sent, recording_active,
                   last_button_time, gesture_counter, gesture_count, files, tasks>>

\* ble_manager.live_plotter = plotter, followed by plotter.start().
AttachLivePlotter ==
    /\ ~plotter_attached
    /\ plotter_attached' = TRUE
    /\ UNCHANGED button_callback
    /\ live_plotter' = LivePlotter_start(live_plotter)
    /\ last_notify' = NoNotify
    /\ UNCHANGED <<tool_vars, codec_vars, last_call, clk, n_accepted, since_redraw, redraw_gap,
                   stopped_adds, n_defects, glove, app_vars, sent>>

\* setup_and_connect, once both gloves are subscribed:
\* ble_manager.button_callback = self.handle_button_press.
SetButtonCallback ==
    /\ ~button_callback
    /\ button_callback' = TRUE
    /\ last_notify' = NoNotify
    /\ UNCHANGED <<tool_vars, codec_vars, plot_vars, glove, plotter_attached, sent, app_vars>>

InitBle == CodecIdle /\ PlotIdle /\ BleIdle /\ ToolIdle

NextBle ==
    \/ DataNotify \/ ControlNotify \/ WriteDone \/ Wake \/ Tick
    \/ AttachLivePlotter \/ SetButtonCallback

SpecBle == InitBle /\ [][NextBle]_vars

\* --------------------------------- specification: the data path of the gloves

\* A data notification of the glove of hand h, followed as a single event.
DataNotified ==
    \E h \in Hands :
        /\ sent[h] < MaxSent
        /\ \E data \in DataPayloads(sent[h] + 1) :
              LET r == data_handler(glove[h], plotter_attached, live_plotter, h, data)
              IN  /\ glove' = [glove EXCEPT ![h] = r.glove]
                  /\ live_plotter' = r.plotter
                  /\ last_notify' = [kind |-> "data", hand |-> h, data |-> data,
                                     callback |-> FALSE]
                  /\ arrived' = IF /\ glove[h].is_recording
                                   /\ data # <<BUTTON_TRIGGER>>
                                   /\ Len(data) \div 2 = EXPECTED_FRAME_LENGTH
                                THEN [arrived EXCEPT ![h] = Append(@, data)]
                                ELSE arrived
        /\ sent' = [sent EXCEPT ![h] = @ + 1]
        /\ UNCHANGED <<codec_vars, last_call, clk, n_accepted, since_redraw, redraw_gap,
                       stopped_adds, n_defects, plotter_attached, button_callback, app_vars,
                       json_file, comparison, flat, more_vars>>

\* BLEManager.start_recording(glove) from its call to its return.
StartRecording ==
    \E h \in Hands, ok \in BOOLEAN :
        /\ glove' = [glove EXCEPT ![h] = start_recording(@, ok)]
        /\ last_notify' = NoNotify
        /\ UNCHANGED <<codec_vars, plot_vars, plotter_attached, button_callback, app_vars, sent, tool_vars>>

\* BLEManager.stop_recording(glove) from its call to its return.
StopRecording ==
    \E h \in Hands, ok \in BOOLEAN :
        /\ glove' = [glove EXCEPT ![h] = stop_recording(@, ok)]
        /\ last_notify' = NoNotify
        /\ UNCHANGED <<codec_vars, plot_vars, plotter_attached, button_callback, app_vars, sent, tool_vars>>

InitData == InitBle

NextData == DataNotified \/ StartRecording \/ StopRecording \/ AttachLivePlotter

SpecData == InitData /\ [][NextData]_vars

\* ------------------------------ specification: the control path and the app

\* A control notification of the glove of hand h, followed as a single event.
ControlNotified ==
    \E h \in Hands, data \in ControlPayloads :
        /\ IF is_button_press(data) /\ h = "Right" /\ button_callback
           THEN ButtonPress
           ELSE UNCHANGED <<glove, app_vars>>
        /\ last_notify' = [kind |-> "control", hand |-> h, data |-> data,
                           callback |-> is_button_press(data) /\ h = "Right"
                                            /\ button_callback]
        /\ UNCHANGED <<codec_vars, plot_vars, plotter_attached, button_callback, sent, tool_vars>>

InitControl == InitBle

NextControl ==
    ControlNotified \/ DataNotify \/ WriteDone \/ Wake \/ Tick \/ SetButtonCallback

SpecControl == InitControl /\ [][NextControl]_vars

\* ------------------------------------------ specification: save, then load

MaxLeftFrames == 3

MaxRightFrames == 1

\* The frames a hand stream is made of: two of 36 values, one of 35, one of 37
\* and an empty one.
StreamFrames ==
    {PyList(FrameOfLen(1, FRAME_LEN)), PyList(FrameOfLen(2, FRAME_LEN)),
     PyList(FrameOfLen(3, FRAME_LEN - 1)),
     PyList(FrameOfLen(4, FRAME_LEN + 1)), PyList(<< >>)}

HandStreams(n) ==
    {PyList(frames) : frames \in UNION {[1..m -> StreamFrames] : m \in 0..n}}

InitRoundTrip ==
    /\ json_file \in {[NoJsonFile EXCEPT !.stage = "given", !.left_data = l, !.right_data = r] :
                          l \in HandStreams(MaxLeftFrames), r \in HandStreams(MaxRightFrames)}
    /\ arrived = [h \in Hands |-> << >>]
    /\ comparison = NoComparison
    /\ flat = NoFlat
    /\ MoreIdle
    /\ CodecIdle
    /\ PlotIdle
    /\ BleIdle

\* DataProcessor.save_gesture(left_data, right_data, ...)
SaveGesture ==
    /\ json_file.stage = "given"
    /\ json_file' = [json_file EXCEPT !.stage = "saved",
                                      !.file = save_gesture(json_file.left_data,
                                                            json_file.right_data)]
    /\ UNCHANGED <<codec_vars, plot_vars, ble_vars, last_notify, more_vars, arrived, comparison, flat>>

\* plot_all_fingers_from_json: load_gesture_data, then convert_frame_data for
\* each hand.
LoadGesture ==
    /\ json_file.stage = "saved"
    /\ json_file' = [json_file EXCEPT
                        !.stage = "loaded",
                        !.left  = convert_frame_data(load_gesture_data(json_file.file).left_hand_data),
                        !.right = convert_frame_data(load_gesture_data(json_file.file).right_hand_data)]
    /\ UNCHANGED <<codec_vars, plot_vars, ble_vars, last_notify, more_vars, arrived, comparison, flat>>

NextRoundTrip == SaveGesture \/ LoadGesture

SpecRoundTrip == InitRoundTrip /\ [][NextRoundTrip]_vars

\* ------------------------------------- specification: the session's files

MaxSaves == 3

\* The hand streams handed to save_gesture: none, or one frame.
SavedStreams == {<< >>, <<bytes_to_uint16_list(PayloadBytes(1, 2 * EXPECTED_FRAME_LENGTH))>>}

\* DataProcessor.save_gesture(left_data, right_data, ..., custom_name) at the
\* current time: the count, the filename from the name and the second, the write.
SaveGestureCall ==
    \E custom_name \in CustomNames, left_data \in SavedStreams, right_data \in SavedStreams,
       written \in BOOLEAN :
        /\ gesture_count < MaxSaves
        /\ gesture_count' = gesture_count + 1
        /\ files' = IF written
                    THEN write_file(files, filename(custom_name, now \div 2),
                                    gesture_count + 1, left_data, right_data)
                    ELSE files
        /\ last_notify' = NoNotify
        /\ UNCHANGED <<tool_vars, codec_vars, plot_vars, glove, plotter_attached,
                       button_callback, sent, recording_active, last_button_time,
                       gesture_counter, now, tasks>>

InitSave == InitBle

NextSave == SaveGestureCall \/ Tick

SpecSave == InitSave /\ [][NextSave]_vars

\* --------------------------------------------- specification: flattening

MaxWidth == 2

\* What a list may hold next to lists: frames of 36 numbers (one with a float),
\* lists of 35 and of 37 numbers, a list of 36 entries one of which is None, a
\* list of 36 entries the first of which is a frame, an empty list, a number
\* and None.
FlatItems ==
    {PyList(FrameOfLen(1, FRAME_LEN)), PyList(FrameOfLen(2, FRAME_LEN)),
     PyList([FrameOfLen(3, FRAME_LEN) EXCEPT ![2] = PyFloat(1500)]),
     PyList(FrameOfLen(4, FRAME_LEN - 1)), PyList(FrameOfLen(5, FRAME_LEN + 1)),
     PyList([FrameOfLen(6, FRAME_LEN) EXCEPT ![FRAME_LEN] = PyNone]),
     PyList([FrameOfLen(7, FRAME_LEN) EXCEPT ![1] = PyList(FrameOfLen(8, FRAME_LEN))]),
     PyList(<< >>), PyInt(7), PyNone}

\* Lists of up to two of the first four of them and of a number.
InnerLists ==
    {PyList(items) :
        items \in UNION {[1..m -> {PyList(FrameOfLen(1, FRAME_LEN)),
                                   PyList(FrameOfLen(2, FRAME_LEN)),
                                   PyList(FrameOfLen(4, FRAME_LEN - 1)),
                                   PyInt(7)}] : m \in {1, 2}}}

OuterLists ==
    {PyList(items) :
        items \in UNION {[1..m -> FlatItems \cup InnerLists] : m \in 0..MaxWidth}}

\* The structures handed to flatten_hand_data: a list, a list wrapped once more
\* (as gesture_recording holds it), a bare frame, a number.
NestedLists ==
    OuterLists \cup {PyList(<<x>>) : x \in OuterLists} \cup FlatItems

InitFlat ==
    /\ flat \in {[NoFlat EXCEPT !.stage = "given", !.nested_list = x] : x \in NestedLists}
    /\ arrived = [h \in Hands |-> << >>]
    /\ json_file = NoJsonFile
    /\ comparison = NoComparison
    /\ MoreIdle
    /\ CodecIdle
    /\ PlotIdle
    /\ BleIdle

Flatten ==
    /\ flat.stage = "given"
    /\ flat' = [flat EXCEPT !.stage = "done", !.result = flatten_hand_data(flat.nested_list)]
    /\ UNCHANGED <<codec_vars, plot_vars, ble_vars, last_notify, more_vars, arrived, json_file,
                   comparison>>

NextFlat == Flatten

SpecFlat == InitFlat /\ [][NextFlat]_vars

\* --------------------------------------------- specification: comparisons

MaxFrames == 2

\* The frames of one recording: n of the left hand, m of the right.
Recording(n, m) ==
    [left  |-> PyList([k \in 1..n |-> PyList(FrameOfLen(k, FRAME_LEN))]),
     right |-> PyList([k \in 1..m |-> PyList(FrameOfLen(k + MaxFrames, FRAME_LEN))])]

Recordings == {Recording(n, m) : n \in 0..MaxFrames, m \in 0..MaxFrames}

\* Those a four-way comparison is run on: a left stream that is empty, as long
\* as the right one, and longer.
FewRecordings == {Recording(0, 1), Recording(1, 1), Recording(MaxFrames, 1)}

RangeEnds == {0, 1, 3, Len(FrameKeys), Len(FrameKeys) + 1}

\* The calls: a two-way comparison of two files, a four-way comparison of a
\* list of four files or of two.
Comparisons ==
    {[way |-> 2, streams |-> <<a, b>>] : a \in Recordings, b \in Recordings}
    \cup {[way |-> 4, streams |-> <<a, b>>] : a \in FewRecordings, b \in FewRecordings}
    \cup {[way |-> 4, streams |-> <<a, b, c, d>>] :
             a \in FewRecordings, b \in FewRecordings, c \in FewRecordings,
             d \in FewRecordings}

InitCompare ==
    /\ comparison \in
          {[NoComparison EXCEPT
                !.stage = "given", !.way = x.way, !.streams = x.streams,
                !.json_files = [k \in 1..Len(x.streams) |->
                                   save_gesture(x.streams[k].left, x.streams[k].right)],
                !.hand = hand, !.column_range = <<s, e>>] :
              x \in Comparisons, hand \in Hands, s \in RangeEnds, e \in RangeEnds}
    /\ arrived = [h \in Hands |-> << >>]
    /\ json_file = NoJsonFile
    /\ flat = NoFlat
    /\ MoreIdle
    /\ CodecIdle
    /\ PlotIdle
    /\ BleIdle

\* os.path.splitext(os.path.basename(json_file))[0]: each recording is a file
\* of its own, named here by the frames it holds.
json_name(recording) == <<Len(recording.left.v), Len(recording.right.v)>>

\* The end of plot_2way_comparison: the image is saved under its file name.
named_2way(image, json1_name, json2_name, hand) ==
    IF image.written
    THEN [image EXCEPT !.filename =
              filename_2way(json1_name, json2_name, hand, image.selected_columns)]
    ELSE image

\* The end of plot_4way_comparison.
named_4way(image, hand, column_range) ==
    IF image.written
    THEN [image EXCEPT !.filename = filename_4way(hand, image.selected_columns, column_range)]
    ELSE image

\* plot_2way_comparison(json_file1, json_file2, column_range, hand)
Plot2WayComparison ==
    /\ comparison.stage = "given"
    /\ comparison.way = 2
    /\ \E dfs \in {[k \in 1..2 |-> json_to_dataframe(comparison.json_files[k])]} :
           comparison' = [comparison EXCEPT
               !.stage = "done", !.dfs = dfs,
               !.image = named_2way(plot_comparison(dfs, comparison.column_range,
                                                    comparison.hand),
                                    json_name(comparison.streams[1]),
                                    json_name(comparison.streams[2]), comparison.hand)]
    /\ UNCHANGED <<codec_vars, plot_vars, ble_vars, last_notify, more_vars, arrived, json_file, flat>>

\* plot_4way_comparison(json_files, column_range, hand)
Plot4WayComparison ==
    /\ comparison.stage = "given"
    /\ comparison.way = 4
    /\ IF Len(comparison.json_files) # 4
       THEN comparison' = [comparison EXCEPT
                !.stage = "done", !.image = [NoImage EXCEPT !.error = "Need exactly 4"]]
       ELSE \E dfs \in {[k \in 1..Len(comparison.json_files) |->
                              json_to_dataframe(comparison.json_files[k])]} :
                comparison' = [comparison EXCEPT
                    !.stage = "done", !.dfs = dfs,
                    !.image = named_4way(plot_comparison(dfs, comparison.column_range,
                                                         comparison.hand),
                                         comparison.hand, comparison.column_range)]
    /\ UNCHANGED <<codec_vars, plot_vars, ble_vars, last_notify, more_vars, arrived, json_file, flat>>

NextCompare == Plot2WayComparison \/ Plot4WayComparison

SpecCompare == InitCompare /\ [][NextCompare]_vars

\* ------------------------------------------------ specification: names

MaxNameLen == 3

NameChars == {"a", "Z", "7", "U+00E9", " ", "_", "-", "#", "/", "U+0009"}

MorningSession ==
    <<"M", "o", "r", "n", "i", "n", "g", " ", "S", "e", "s", "s", "i", "o", "n", " ", "#", "1">>

Names ==
    UNION {[1..n -> NameChars] : n \in 0..MaxNameLen} \cup {MorningSession}

InitSanitize ==
    /\ sanitized \in {[NoSanitized EXCEPT !.stage = "given", !.name = n] : n \in Names}
    /\ connecting = NoConnecting
    /\ session = NoSession
    /\ arrived = [h \in Hands |-> << >>]
    /\ json_file = NoJsonFile
    /\ comparison = NoComparison
    /\ flat = NoFlat
    /\ CodecIdle
    /\ PlotIdle
    /\ BleIdle

\* self._sanitize_name(name)
Sanitize ==
    /\ sanitized.stage = "given"
    /\ sanitized' = [sanitized EXCEPT !.stage = "done", !.result = sanitize_name(sanitized.name)]
    /\ UNCHANGED <<codec_vars, plot_vars, ble_vars, last_notify, arrived, json_file,
                   comparison, flat, connecting, session>>

\* self._sanitize_name of a name that already is a result of it.
SanitizeAgain ==
    /\ sanitized.stage = "done"
    /\ sanitized' = [sanitized EXCEPT !.stage = "again",
                                      !.again = sanitize_name(sanitized.result)]
    /\ UNCHANGED <<codec_vars, plot_vars, ble_vars, last_notify, arrived, json_file,
                   comparison, flat, connecting, session>>

NextSanitize == Sanitize \/ SanitizeAgain

SpecSanitize == InitSanitize /\ [][NextSanitize]_vars

\* ---------------------------------------------- specification: connecting

MaxRetry == 4

\* How one attempt can end: client.connect() returns with the client connected
\* or not connected, or something in the attempt raises, with the client not
\* connected or (partially) connected.
AttemptOutcomes == {"connected", "not_connected", "error", "error_connected"}

may_retry_once_more(attempt, retry_count) == attempt <= retry_count

\* if attempt < retry_count: sleep and go on, else: return False
may_retry(attempt, retry_count) == attempt < retry_count

InitConnect ==
    /\ connecting \in {[NoConnecting EXCEPT !.pc = "called", !.hand = h, !.retry_count = n] :
                          h \in Hands, n \in 0..MaxRetry}
    /\ sanitized = NoSanitized
    /\ session = NoSession
    /\ arrived = [h \in Hands |-> << >>]
    /\ json_file = NoJsonFile
    /\ comparison = NoComparison
    /\ flat = NoFlat
    /\ CodecIdle
    /\ PlotIdle
    /\ BleIdle

ConnectUnchanged ==
    UNCHANGED <<codec_vars, plot_vars, ble_vars, last_notify, arrived, json_file,
                comparison, flat, sanitized, session>>

\* connect_glove(glove, retry_count) up to its first await: the loop over
\* range(1, retry_count + 1), or return False when the range is empty.
ConnectGlove ==
    /\ connecting.pc = "called"
    /\ connecting' =
          IF connecting.retry_count >= 1
          THEN [connecting EXCEPT !.pc = "connect", !.attempt = 1]
          ELSE [connecting EXCEPT !.pc = "returned", !.result = FALSE]
    /\ ConnectUnchanged

\* One attempt from client.connect() on: connected goes on to the MTU request;
\* not connected, or an exception (after which a connected client is
\* disconnected), sleeps before the next attempt or returns False after the last.
ConnectAttempt ==
    /\ connecting.pc = "connect"
    /\ \E outcome \in AttemptOutcomes :
          connecting' =
              [connecting EXCEPT
                  !.outcomes = Append(@, outcome),
                  !.pc = IF outcome = "connected" THEN "mtu"
                         ELSE IF may_retry(connecting.attempt, connecting.retry_count)
                         THEN "sleep" ELSE "returned",
                  !.result = FALSE]
    /\ ConnectUnchanged

\* await asyncio.sleep(2), then the next attempt.
RetrySleepDone ==
    /\ connecting.pc = "sleep"
    /\ connecting' = [connecting EXCEPT !.pc = "connect", !.attempt = @ + 1]
    /\ ConnectUnchanged

\* The MTU request returns or raises (ignored): return True.
MtuDone ==
    /\ connecting.pc = "mtu"
    /\ connecting' = [connecting EXCEPT !.pc = "returned", !.result = TRUE]
    /\ ConnectUnchanged

NextConnect == ConnectGlove \/ ConnectAttempt \/ RetrySleepDone \/ MtuDone

SpecConnect == InitConnect /\ [][NextConnect]_vars

\* Every await of connect_glove completes: client.connect() has a timeout of
\* 20 s, the sleep lasts 2 s, the write returns or raises.
SpecConnectFair == SpecConnect /\ WF_vars(NextConnect)

\* ------------------------------------------------ specification: sessions

MaxSetups == 3

max_attempts == 3

\* How one scan attempt of setup_and_connect can end: scan_devices returns a
\* Left and a Right glove, returns no glove, or raises.
ScanOutcomes == {"both", "none", "error"}

\* The scan attempts of one call: the loop ends at the first scan that gives
\* both gloves, or after max_attempts.
ScanRuns ==
    {r \in UNION {[1..n -> ScanOutcomes] : n \in 1..max_attempts} :
        /\ \A k \in 1..(Len(r) - 1) : r[k] # "both"
        /\ r[Len(r)] # "both" => Len(r) = max_attempts}

InitSession ==
    /\ session = NoSession
    /\ sanitized = NoSanitized
    /\ connecting = NoConnecting
    /\ arrived = [h \in Hands |-> << >>]
    /\ json_file = NoJsonFile
    /\ comparison = NoComparison
    /\ flat = NoFlat
    /\ CodecIdle
    /\ PlotIdle
    /\ BleIdle

SessionUnchanged ==
    UNCHANGED <<codec_vars, plot_vars, glove, plotter_attached, sent, last_button_time,
                files, now, tasks, last_notify, arrived, json_file, comparison, flat,
                sanitized, connecting>>

\* setup_and_connect, menu choice 1 (or the second half of choice 7): the
\* names, the new DataProcessor, the scan loop, the both-gloves check and the
\* connect step.
SetupAndConnect ==
    /\ ~session.connected
    /\ session.calls < MaxSetups
    /\ \E named \in BOOLEAN, scans \in ScanRuns,
          connect \in {"connected", "failed", "error"} :
          IF ~named
          THEN /\ session' = [session EXCEPT !.calls = @ + 1, !.named = FALSE,
                                             !.scans = << >>, !.connect_step = "none"]
               /\ UNCHANGED <<gesture_counter, gesture_count, button_callback>>
          ELSE LET found == scans[Len(scans)] = "both"
                   left_glove  == IF found THEN session.calls + 1 ELSE session.left_glove
                   right_glove == IF found THEN session.calls + 1 ELSE session.right_glove
                   both == left_glove # 0 /\ right_glove # 0
               IN  /\ session' =
                          [session EXCEPT
                              !.calls = @ + 1, !.named = TRUE, !.scans = scans,
                              !.left_glove = left_glove, !.right_glove = right_glove,
                              !.connect_step = IF both THEN connect ELSE "none",
                              !.connected = both /\ connect = "connected"]
                   /\ gesture_counter' = 0
                   /\ gesture_count' = 0
                   /\ button_callback' = (button_callback \/ (both /\ connect = "connected"))
    /\ UNCHANGED recording_active
    /\ SessionUnchanged

\* disconnect_gloves, the first half of menu choices 7 and 8.
DisconnectGloves ==
    /\ session.connected
    /\ session' = [session EXCEPT !.connected = FALSE]
    /\ recording_active' = FALSE
    /\ UNCHANGED <<gesture_counter, gesture_count, button_callback>>
    /\ SessionUnchanged

NextSession == SetupAndConnect \/ DisconnectGloves

SpecSession == InitSession /\ [][NextSession]_vars

\* --------------------------------------------- specification: live plotter

MaxLong == 705

MaxShort == 21

MaxRight == 2

MaxOdd == 1

MaxDefects == 1

MaxStopped == 2

MaxDefectRun == 2

\* The frame a glove sends as its k-th: 36 unsigned 16-bit values, all different
\* from frame to frame and on both sides of 32768.
SampleFrame(k) == FrameOfLen(k, FRAME_LEN)

ZeroFrame == [i \in 1..FRAME_LEN |-> PyInt(0)]

DefectPositions == {1, 6, 13, 36}

DefectValues == {PyNone, PyText, PyHuge}

finger_of(pos) == ((pos - 1) \div 6) + 1

IsNumber(v) == v.kind = "int"

\* The sample, as the caller sees it, is one finger number i's window has to
\* accept: a frame of 36 entries, not all zero, whose six entries for the finger
\* are numbers, in a call that no earlier entry ends by an exception.
Acceptable(p, hand, data, i) ==
    /\ Len(data) = FRAME_LEN
    /\ \E j \in 1..Len(data) : data[j] # PyInt(0)
    /\ hand \notin p.first_frame_logged => IsNumber(data[1]) /\ IsNumber(data[2])
    /\ \A j \in 1..(6 * i) : data[j] # PyHuge
    /\ \A j \in (start_idx(i) + 1)..(start_idx(i) + 6) : IsNumber(data[j])

\* One call of add_data(hand, data), with the bookkeeping of the history variables.
AddData(hand, data, defect) ==
    LET r   == LivePlotter_add_data(live_plotter, hand, data)
        acc == Acceptable(live_plotter, hand, data, 1)
        s   == IF live_plotter.is_running /\ acc THEN since_redraw + 1 ELSE since_redraw
    IN  /\ ~live_plotter.is_running => stopped_adds < MaxStopped
        /\ live_plotter' = r.p
        /\ last_call' = [NoCall EXCEPT !.op = "add_data", !.hand = hand, !.data = data,
                                        !.redraw = r.redraw, !.raised = r.raised,
                                        !.valid = r.valid]
        /\ clk' = IF Len(data) = FRAME_LEN /\ data # ZeroFrame
                  THEN [clk EXCEPT ![hand] = @ + 1] ELSE clk
        /\ n_accepted' = [f \in Fingers |-> [k \in StorageKeys |->
                 IF k \in {acc_key(hand), gyro_key(hand)}
                    /\ \E i \in 1..Len(FINGER_NAMES) :
                          FINGER_NAMES[i] = f /\ Acceptable(live_plotter, hand, data, i)
                 THEN n_accepted[f][k] + 1 ELSE n_accepted[f][k]]]
        /\ since_redraw' = IF r.redraw THEN 0 ELSE s
        /\ redraw_gap' = IF r.redraw /\ acc THEN s ELSE redraw_gap
        /\ stopped_adds' = IF live_plotter.is_running THEN stopped_adds ELSE stopped_adds + 1
        /\ n_defects' = IF defect THEN n_defects + 1 ELSE n_defects
        /\ UNCHANGED <<aux_vars, codec_vars, ble_vars>>

\* A long run is one hand's stream of good samples; runs that mix hands, hold a
\* defective frame or a direct FingerWindow.add_data call stay short.
CleanRun == clk["Right"] = 0 /\ n_defects = 0

AddSample ==
    \E hand \in Hands :
        /\ n_defects > 0 => clk[hand] < MaxDefectRun
        /\ IF hand = "Left"
           THEN clk[hand] < (IF CleanRun THEN MaxLong ELSE MaxShort)
           ELSE clk[hand] < MaxRight /\ clk["Left"] <= MaxShort
        /\ AddData(hand, SampleFrame(clk[hand] + 1), FALSE)

AddIgnored ==
    \E hand \in Hands :
        \E data \in {<< >>, ZeroFrame, SubSeq(SampleFrame(clk[hand] + 1), 1, FRAME_LEN - 1),
                     Append(SampleFrame(clk[hand] + 1), PyInt(1))} :
            /\ clk["Left"] + clk["Right"] <= MaxOdd
            /\ AddData(hand, data, FALSE)

\* The triples FingerWindow.add_data is handed directly: those of the k-th frame
\* for finger number i, as converted or with one component None.
TriplesFor(k, i, is_acc) ==
    LET good == ConvertTriple(IF is_acc THEN parse_frame_data(SampleFrame(k)).units[i].acc_raw
                              ELSE parse_frame_data(SampleFrame(k)).units[i].gyro_raw, is_acc)
    IN  {good} \cup {[good EXCEPT ![j] = NoneResult] : j \in 1..3}

\* One call of FingerWindow.add_data(hand, acc_data, gyro_data) on the window of
\* a finger, not through LivePlotter.add_data.
AddToWindow ==
    \E i \in 1..Len(FINGER_NAMES), hand \in Hands :
      \E acc_data \in TriplesFor(clk[hand] + 1, i, TRUE),
         gyro_data \in TriplesFor(clk[hand] + 1, i, FALSE) :
        LET f == FINGER_NAMES[i] IN
        /\ clk["Left"] + clk["Right"] <= MaxOdd
        /\ n_defects < MaxDefects
        /\ ~live_plotter.is_running => stopped_adds < MaxStopped
        /\ live_plotter' = [live_plotter EXCEPT !.finger_windows[f] =
                                FingerWindow_add_data(@, hand, acc_data, gyro_data)]
        /\ last_call' = [NoCall EXCEPT !.op = "window_add", !.hand = hand, !.finger = f,
                                        !.acc_data = acc_data, !.gyro_data = gyro_data]
        /\ n_accepted' = [n_accepted EXCEPT
                             ![f][acc_key(hand)] =
                                 IF \A j \in 1..3 : acc_data[j].tag = "val" THEN @ + 1 ELSE @,
                             ![f][gyro_key(hand)] =
                                 IF \A j \in 1..3 : gyro_data[j].tag = "val" THEN @ + 1 ELSE @]
        /\ since_redraw' = IF live_plotter.is_running /\ i = 1
                                /\ \A j \in 1..3 : acc_data[j].tag = "val"
                            THEN since_redraw + 1 ELSE since_redraw
        /\ stopped_adds' = IF live_plotter.is_running THEN stopped_adds ELSE stopped_adds + 1
        /\ n_defects' = n_defects + 1
        /\ UNCHANGED <<aux_vars, clk, redraw_gap, codec_vars, ble_vars>>

AddDefective ==
    \E hand \in Hands, pos \in DefectPositions, bad \in DefectValues :
        /\ clk["Left"] + clk["Right"] <= MaxOdd
        /\ n_defects < MaxDefects
        /\ AddData(hand, [SampleFrame(clk[hand] + 1) EXCEPT ![pos] = bad], TRUE)

HasData(p) ==
    \E f \in Fingers, k \in StorageKeys :
        Len(p.finger_windows[f].data[k]) > 0 \/ p.finger_windows[f].total_frames[k] > 0

ResetHistory ==
    /\ clk' = [h \in Hands |-> 0]
    /\ n_accepted' = [f \in Fingers |-> [k \in StorageKeys |-> 0]]
    /\ since_redraw' = 0
    /\ redraw_gap' = 0
    /\ n_defects' = 0

Start ==
    /\ live_plotter' = LivePlotter_start(live_plotter)
    /\ last_call' = [NoCall EXCEPT !.op = "start", !.had_data = HasData(live_plotter)]
    /\ ResetHistory
    /\ stopped_adds' = 0
    /\ UNCHANGED <<aux_vars, codec_vars, ble_vars>>

Stop ==
    /\ live_plotter' = LivePlotter_stop(live_plotter)
    /\ last_call' = [NoCall EXCEPT !.op = "stop"]
    /\ UNCHANGED <<aux_vars, clk, n_accepted, since_redraw, redraw_gap, stopped_adds, n_defects,
                   codec_vars, ble_vars>>

Clear ==
    /\ live_plotter' = LivePlotter_clear(live_plotter)
    /\ last_call' = [NoCall EXCEPT !.op = "clear", !.had_data = HasData(live_plotter)]
    /\ ResetHistory
    /\ UNCHANGED <<aux_vars, stopped_adds, codec_vars, ble_vars>>

InitPlot == CodecIdle /\ PlotIdle /\ BleIdle /\ ToolIdle

NextPlot == Start \/ Stop \/ Clear \/ AddSample \/ AddIgnored \/ AddDefective \/ AddToWindow

SpecPlot == InitPlot /\ [][NextPlot]_vars

\* ------------------------------------------------------ claims: live plotter

Window(f) == live_plotter.finger_windows[f]

\* C1: in every reachable state each (finger, hand, sensor-class) window has
\* total_frames >= len(buffer) and len(buffer) <= 500.
C1_TotalBoundsBuffer ==
    \A f \in Fingers, k \in StorageKeys :
        /\ Window(f).total_frames[k] >= Len(Window(f).data[k])
        /\ Len(Window(f).data[k]) <= 500

\* A buffer is full and its counter has run past it.
C1_Witness ==
    /\ Len(Window("Palm").data["left_gyro"]) = 500
    /\ Window("Palm").total_frames["left_gyro"] > 500

\* The triple a window stores for the k-th frame of a glove.
ExpectedTriple(k, i, is_acc) ==
    [j \in 1..3 |->
        LET r == RawAt(k, (i - 1) * 6 + (IF is_acc THEN 0 ELSE 3) + j).v
            signed == IF r < 32768 THEN r ELSE r - 65536
        IN  IF is_acc THEN signed * 41 ELSE signed * 5120]

C2_Window(f, k, n) ==
    LET w     == Window(f)
        buf   == w.data[k]
        slice == display_data(buf, w.total_frames[k])
        m     == Min(n, 200)
    IN  /\ Len(buf) = Min(n, 500)
        /\ w.total_frames[k] = n
        /\ Len(slice) = m
        /\ \A j \in 1..m : slice[j] = buf[Len(buf) - m + j]
        /\ start_frame(w.total_frames[k]) = Max(0, n - 200)
        /\ end_frame(w.total_frames[k]) = n
        /\ (last_call.op = "add_data" /\ last_call.redraw /\ n > 0) =>
              w.lines[k] = [start_frame |-> Max(0, n - 200), end_frame |-> n,
                            ydata |-> slice]

\* C2: n samples accepted by a window since start() leave it with a buffer of
\* min(n, 500) entries, total-seen n, and a visible slice of the last min(n, 200)
\* buffered entries spanning frames max(0, n - 200) .. n; in a run of good Left
\* samples the buffer holds the newest ones, oldest first.
C2_RollingWindow ==
    /\ \A f \in Fingers, k \in StorageKeys : C2_Window(f, k, n_accepted[f][k])
    /\ CleanRun =>
          \A i \in 1..Len(FINGER_NAMES) :
              LET n   == n_accepted[FINGER_NAMES[i]]["left_acc"]
                  acc == Window(FINGER_NAMES[i]).data["left_acc"]
                  gyr == Window(FINGER_NAMES[i]).data["left_gyro"]
              IN  /\ \A j \in 1..Len(acc) : acc[j] = ExpectedTriple(n - Len(acc) + j, i, TRUE)
                  /\ \A j \in 1..Len(gyr) : gyr[j] = ExpectedTriple(n - Len(gyr) + j, i, FALSE)

\* start() then 700 accepted samples: 500 buffered, 700 seen, 200 visible from 500.
C2_Witness ==
    /\ n_accepted["IndexFinger"]["left_acc"] = 700
    /\ Len(Window("IndexFinger").data["left_acc"]) = 500
    /\ Window("IndexFinger").total_frames["left_acc"] = 700
    /\ Len(Window("IndexFinger").lines["left_acc"].ydata) = 200
    /\ Window("IndexFinger").lines["left_acc"].start_frame = 500

\* C3: while running, a redraw that an accepted sample triggers comes with the
\* 10th sample accepted since the previous redraw (or since start or clear).
C3_RedrawEveryTenth == redraw_gap \in {0, 10}

\* C4: add_data with a triple that has an invalid component leaves that (finger,
\* hand, sensor-class) window as it was, same buffer and same total-seen, be it
\* FingerWindow.add_data called with the triple or LivePlotter.add_data called
\* with a frame that holds it.
C4_InvalidIsNoOp ==
    [][/\ last_call'.op = "window_add" =>
            LET f   == last_call'.finger
                h   == last_call'.hand
                old == live_plotter.finger_windows[f]
                new == live_plotter'.finger_windows[f]
            IN  /\ (\E j \in 1..3 : last_call'.acc_data[j].tag = "none") =>
                      /\ new.data[acc_key(h)] = old.data[acc_key(h)]
                      /\ new.total_frames[acc_key(h)] = old.total_frames[acc_key(h)]
                /\ (\E j \in 1..3 : last_call'.gyro_data[j].tag = "none") =>
                      /\ new.data[gyro_key(h)] = old.data[gyro_key(h)]
                      /\ new.total_frames[gyro_key(h)] = old.total_frames[gyro_key(h)]
       /\ (last_call'.op = "add_data" /\ Len(last_call'.data) = 36) =>
         \A i \in 1..6 :
            LET f   == FINGER_NAMES[i]
                h   == last_call'.hand
                d   == last_call'.data
                old == live_plotter.finger_windows[f]
                new == live_plotter'.finger_windows[f]
            IN  /\ (\E j \in 1..3 : d[(i - 1) * 6 + j].kind # "int") =>
                      /\ new.data[acc_key(h)] = old.data[acc_key(h)]
                      /\ new.total_frames[acc_key(h)] = old.total_frames[acc_key(h)]
                /\ (\E j \in 4..6 : d[(i - 1) * 6 + j].kind # "int") =>
                      /\ new.data[gyro_key(h)] = old.data[gyro_key(h)]
                      /\ new.total_frames[gyro_key(h)] = old.total_frames[gyro_key(h)]
      ]_vars

\* FingerWindow.add_data took a good accelerometer triple and refused the
\* gyroscope triple that came with it, its last component None.
C4_Witness ==
    /\ last_call.op = "window_add"
    /\ last_call.gyro_data[3].tag = "none"
    /\ \A j \in 1..3 : last_call.acc_data[j].tag = "val"
    /\ Window(last_call.finger).total_frames[acc_key(last_call.hand)] = 1
    /\ Window(last_call.finger).total_frames[gyro_key(last_call.hand)] = 0

\* A frame whose last Palm gyroscope entry is None went through: the IndexFinger
\* windows took it, the Palm windows did not.
C4_WitnessFrame ==
    /\ last_call.op = "add_data"
    /\ Len(last_call.data) = 36
    /\ last_call.data[36] = PyNone
    /\ ~last_call.raised
    /\ Window("IndexFinger").total_frames[gyro_key(last_call.hand)] = 1
    /\ Window("Palm").total_frames[gyro_key(last_call.hand)] = 0

\* C5: a window's total-seen counter goes down only in a start() or a clear(),
\* and then to 0; add_data (eviction included) and stop() never lower it.
C5_TotalMonotonic ==
    [][\A f \in Fingers, k \in StorageKeys :
          live_plotter'.finger_windows[f].total_frames[k]
              < live_plotter.finger_windows[f].total_frames[k]
          => /\ last_call'.op \in {"start", "clear"}
             /\ live_plotter'.finger_windows[f].total_frames[k] = 0
      ]_vars

\* stop() was called after evictions and the counter still stands above 500.
C5_Witness ==
    /\ last_call.op = "stop"
    /\ Window("IndexFinger").total_frames["left_acc"] > 500
    /\ Len(Window("IndexFinger").data["left_acc"]) = 500

\* C6: right after start() and right after clear() every window of every finger
\* has an empty buffer and total-seen 0.
C6_StartClearEmpty ==
    last_call.op \in {"start", "clear"} =>
        \A f \in Fingers, k \in StorageKeys :
            /\ Window(f).data[k] = << >>
            /\ Window(f).total_frames[k] = 0

\* clear() was called on a plotter that held data.
C6_Witness == last_call.op = "clear" /\ last_call.had_data

\* start() was called on a plotter that held data.
C6_WitnessStart == last_call.op = "start" /\ last_call.had_data

\* ------------------------------------------------------------ claims: codec

InRange(v) == v.kind = "int" /\ v.v >= 0 /\ v.v <= 65535

\* (x / DEN = signed / d is stated as x = signed * (DEN / d), DEN / d being whole,
\* which keeps the products within TLC's integers.)
\* C7: for r in 0..65535, with signed = r below 32768 and r - 65536 from there,
\* decode gives signed / 4096 for an accelerometer, within [-8, 8), and
\* signed / 32.8 for a gyroscope, within [-1000, 1000); decode(0, Acc) = 0,
\* decode(4096, Acc) = 1, decode(32768, Acc) = -8.  Both implementations agree.
C7_DecodeRange ==
    (c_out.live.tag # "pending" /\ InRange(c_raw)) =>
        LET r      == c_raw.v
            signed == IF r < 32768 THEN r ELSE r - 65536
            x      == c_out.live.val
        IN  /\ c_out.live.tag = "val"
            /\ c_out.json = c_out.live
            /\ c_acc  => /\ DEN % 4096 = 0
                         /\ x % (DEN \div 4096) = 0
                         /\ x \div (DEN \div 4096) = signed
                         /\ (0 - 8) * DEN <= x /\ x < 8 * DEN
                         /\ r = 0 => x = 0
                         /\ r = 4096 => x = DEN
                         /\ r = 32768 => x = (0 - 8) * DEN
            /\ ~c_acc => /\ (10 * DEN) % 328 = 0
                         /\ x % ((10 * DEN) \div 328) = 0
                         /\ x \div ((10 * DEN) \div 328) = signed
                         /\ (0 - 1000) * DEN <= x /\ x < 1000 * DEN

\* decode(32768, Accelerometer) was computed and is -8.
C7_Witness ==
    /\ c_out.live.tag = "val"
    /\ c_raw = PyInt(32768)
    /\ c_acc
    /\ c_out.live.val = (0 - 8) * DEN

\* C8: decode gives the invalid marker, and raises nothing, for every input that
\* is not an integer in 0..65535.
C8_InvalidOutsideRange ==
    (c_out.live.tag # "pending" /\ ~InRange(c_raw)) =>
        /\ c_out.live.tag = "none"
        /\ c_out.json.tag = "none"

\* C9: a frame of a length other than 36 is refused with no value decoded; a
\* frame of 36 gives the 6 units Index, Middle, Ring, Little, Thumb, Palm in that
\* order, unit i with raw positions 6i..6i+2 as accelerometer values and
\* 6i+3..6i+5 as gyroscope values (i from 0).
C9_SplitFrame ==
    s_out.done =>
        IF Len(s_frame) # 36
        THEN /\ ~s_out.parse.ok
             /\ ~s_out.conv.ok
             /\ s_out.conv.decoded = 0
             /\ s_out.conv.units = << >>
        ELSE /\ s_out.parse.ok /\ s_out.conv.ok
             /\ Len(s_out.parse.units) = 6 /\ Len(s_out.conv.units) = 6
             /\ [i \in 1..6 |-> s_out.parse.units[i].finger]
                   = <<"IndexFinger", "MiddleFinger", "RingFinger", "LittleFinger",
                       "Thumb", "Palm">>
             /\ \A i \in 1..6 :
                   /\ s_out.conv.units[i].finger = s_out.parse.units[i].finger
                   /\ Len(s_out.parse.units[i].acc_raw) = 3
                   /\ Len(s_out.parse.units[i].gyro_raw) = 3
                   /\ \A j \in 1..3 :
                         /\ s_out.parse.units[i].acc_raw[j] = s_frame[6 * (i - 1) + j]
                         /\ s_out.parse.units[i].gyro_raw[j] = s_frame[6 * (i - 1) + 3 + j]
                         /\ s_out.conv.units[i].acc[j]
                               = transform_value_json(s_frame[6 * (i - 1) + j], TRUE)
                         /\ s_out.conv.units[i].gyro[j]
                               = transform_value_json(s_frame[6 * (i - 1) + 3 + j], FALSE)

\* A frame of 36 was split into its six units.
C9_Witness == s_out.done /\ Len(s_frame) = 36 /\ s_out.parse.ok /\ s_out.conv.decoded = 36

\* A frame of 37 was refused.
C9_WitnessRefused == s_out.done /\ Len(s_frame) = 37 /\ ~s_out.parse.ok

\* ----------------------------------------------------------- claims: gloves

\* C10: every frame held in a glove's data_buffer has exactly 36 values, each in
\* 0..65535.
C10_BufferedFramesWellFormed ==
    \A h \in Hands :
        \A i \in 1..Len(glove[h].data_buffer) :
            /\ Len(glove[h].data_buffer[i]) = 36
            /\ \A j \in 1..Len(glove[h].data_buffer[i]) :
                  glove[h].data_buffer[i][j] \in 0..65535

\* A payload of the wrong size reached a recording glove that already holds a
\* frame, and the buffer did not grow.
C10_Witness ==
    \E h \in Hands :
        /\ glove[h].is_recording
        /\ sent[h] = MaxSent
        /\ Len(glove[h].data_buffer) = 1
        /\ glove[h].frame_count = 1

\* The little-endian unsigned 16-bit values of a payload: v_i = b[2i] + 256*b[2i+1],
\* counting i from 0, for the whole pairs of bytes the payload holds.
LittleEndian(data) ==
    [i \in 1..(Len(data) \div 2) |-> data[2 * i - 1] + 256 * data[2 * i]]

\* The hand that is not h.
OtherHand(h) == IF h = "Left" THEN "Right" ELSE "Left"

\* C11: a data notification appends its unpacked frame to the glove's buffer and
\* adds 1 to frame_count if and only if the glove is recording, the payload is
\* not the single byte 64 and it unpacks to exactly 36 values; in every other
\* case data_buffer and frame_count stay as they were.
C11_AppendedIff ==
    [][last_notify'.kind = "data" =>
          LET h    == last_notify'.hand
              data == last_notify'.data
          IN  IF /\ glove[h].is_recording
                 /\ data # <<64>>
                 /\ Len(LittleEndian(data)) = 36
              THEN /\ glove'[h].data_buffer =
                          Append(glove[h].data_buffer, LittleEndian(data))
                   /\ glove'[h].frame_count = glove[h].frame_count + 1
              ELSE /\ glove'[h].data_buffer = glove[h].data_buffer
                   /\ glove'[h].frame_count = glove[h].frame_count]_vars

C11_Witness ==
    /\ last_notify.kind = "data"
    /\ Len(last_notify.data) = 72
    /\ \E i \in 1..72 : last_notify.data[i] # 0
    /\ glove[last_notify.hand].is_recording
    /\ Len(glove[last_notify.hand].data_buffer) = 2
    /\ glove[last_notify.hand].data_buffer[2] = LittleEndian(last_notify.data)

C11_WitnessRefused ==
    /\ last_notify.kind = "data"
    /\ Len(last_notify.data) = 74
    /\ glove[last_notify.hand].is_recording
    /\ Len(glove[last_notify.hand].data_buffer) = 1

\* C12: a control notification calls the button callback, the signal of a
\* recording toggle, if and only if its payload holds the byte 64, it comes from
\* the Right glove and the app has set its callback (the last step of
\* setup_and_connect); one from the Left glove changes nothing of the recording
\* state, whatever its payload.
ControlStep(signal_if(_, _)) ==
    last_notify'.kind = "control" =>
        LET h        == last_notify'.hand
            data     == last_notify'.data
            has_64   == \E i \in 1..Len(data) : data[i] = 64
            signaled == last_notify'.callback
        IN  /\ signaled <=> signal_if(h, has_64)
            /\ signaled /\ now - last_button_time >= DEBOUNCE_TICKS =>
                  \E t \in 1..MaxTasks :
                      /\ tasks[t].pc = "idle"
                      /\ tasks'[t].pc = IF recording_active THEN "stop_left"
                                        ELSE "start_left"
            /\ ~signaled => /\ glove' = glove
                            /\ recording_active' = recording_active
                            /\ tasks' = tasks
                            /\ last_button_time' = last_button_time
            /\ h = "Left" => /\ recording_active' = recording_active
                             /\ \A g \in Hands :
                                   glove'[g].is_recording = glove[g].is_recording
                             /\ tasks' = tasks

SignalWhenSet(h, has_64) == has_64 /\ h = "Right" /\ button_callback

SignalAlways(h, has_64) == has_64 /\ h = "Right"

C12_ToggleIff == [][ControlStep(SignalWhenSet)]_vars

\* C12 as stated: the signal if and only if the payload holds 64 and the glove is
\* the Right one, at any time the handlers are subscribed.
C12_ToggleIffAsStated == [][ControlStep(SignalAlways)]_vars

C12_Witness ==
    /\ last_notify.kind = "control"
    /\ last_notify.hand = "Right"
    /\ last_notify.data = <<1, 64, 3>>
    /\ recording_active
    /\ \E t \in 1..MaxTasks : tasks[t].pc = "stop_left"

C12_WitnessLeft ==
    /\ last_notify.kind = "control"
    /\ last_notify.hand = "Left"
    /\ last_notify.data = <<64>>
    /\ recording_active
    /\ now - last_button_time >= DEBOUNCE_TICKS
    /\ \A t \in 1..MaxTasks : tasks[t].pc = "idle"

\* C13: when a button press starts a recording, both gloves' buffers are empty
\* and both frame counters are 0 at the moment recording becomes active, so that
\* the gesture saved at the following stop holds no earlier frame.
C13_EmptyWhenActive ==
    [][~recording_active /\ recording_active' =>
          \A h \in Hands : /\ glove'[h].data_buffer = << >>
                           /\ glove'[h].frame_count = 0]_vars

\* The frames of the payloads in arrived, in the same order.
ArrivedFrames(h) == [i \in 1..Len(arrived[h]) |-> LittleEndian(arrived[h][i])]

\* The storage keys of the rolling windows that belong to hand h.
KeysOf(h) == IF h = "Left" THEN {"left_acc", "left_gyro"} ELSE {"right_acc", "right_gyro"}

\* C14: under any interleaving of Left and Right data notifications each glove's
\* buffer is the sequence of that glove's accepted frames in arrival order, none
\* lost, duplicated or reordered, and handling a frame of one hand leaves the
\* other hand's buffer, frame counter and rolling windows unchanged.
C14_HandsIndependent ==
    /\ [](\A h \in Hands : glove[h].data_buffer = ArrivedFrames(h))
    /\ [][last_notify'.kind = "data" =>
             LET o == OtherHand(last_notify'.hand)
             IN  /\ glove'[o] = glove[o]
                 /\ \A f \in Fingers, k \in KeysOf(o) :
                       /\ live_plotter'.finger_windows[f].data[k] =
                              live_plotter.finger_windows[f].data[k]
                       /\ live_plotter'.finger_windows[f].total_frames[k] =
                              live_plotter.finger_windows[f].total_frames[k]]_vars

C14_Witness ==
    /\ last_notify.kind = "data"
    /\ last_notify.hand = "Left"
    /\ plotter_attached
    /\ \A h \in Hands : /\ glove[h].is_recording
                        /\ Len(glove[h].data_buffer) = 2
                        /\ glove[h].data_buffer[1] # glove[h].data_buffer[2]
    /\ \A k \in StorageKeys : live_plotter.finger_windows["Palm"].total_frames[k] = 2

\* A step in which save_gesture was entered and did not return: gesture_count
\* went up, gesture_counter did not.
SaveFailed == gesture_count' = gesture_count + 1 /\ gesture_counter' = gesture_counter

\* C15: when persisting a stopped gesture fails while the buffers hold frames,
\* the failure leaves handle_button_press as an exception instead of being
\* absorbed, and the buffers keep the captured frames.
C15_SaveFailureSurfaces ==
    [][SaveFailed =>
          /\ \E t \in 1..MaxTasks : tasks[t].pc = "sleep" /\ tasks'[t].pc = "raised"
          /\ \A h \in Hands : glove'[h].data_buffer = glove[h].data_buffer]_vars

\* ---------------------------------------------------- claims: files and plots

\* The frames of length 36 of a hand stream, in their order.
ValidFrames(stream) == SelectSeq(stream.v, LAMBDA frame : Len(frame.v) = 36)

\* A raw value as the signed number it stands for.
Signed(raw) == IF raw >= 32768 THEN raw - 65536 ELSE raw

\* The series of unit number i that the loader owes a hand stream.
SeriesOwed(stream, i, series) ==
    LET valid == ValidFrames(stream)
    IN  /\ Len(series.acc) = Len(valid)
        /\ Len(series.gyro) = Len(valid)
        /\ \A k \in 1..Len(valid), c \in 1..3 :
              /\ series.acc[k][c] =
                     Value(Signed(valid[k].v[6 * (i - 1) + c].v) * (DEN \div 4096))
              /\ series.gyro[k][c] =
                     Value(Signed(valid[k].v[6 * (i - 1) + 3 + c].v) * ((10 * DEN) \div 328))

\* C16: saving a gesture and loading it back gives, for each hand and each of
\* the 6 units, an acc and a gyro series with one entry for every frame of
\* length 36 of the saved hand stream, entry k made from the k-th such frame;
\* the file holds the raw streams as they were handed in.
C16_RoundTrip ==
    /\ json_file.stage \in {"saved", "loaded"} =>
          /\ load_gesture_data(json_file.file).left_hand_data = json_file.left_data
          /\ load_gesture_data(json_file.file).right_hand_data = json_file.right_data
    /\ json_file.stage = "loaded" =>
          \A i \in 1..6 : /\ SeriesOwed(json_file.left_data, i, json_file.left[i])
                          /\ SeriesOwed(json_file.right_data, i, json_file.right[i])

C16_Witness ==
    /\ json_file.stage = "loaded"
    /\ Len(json_file.left_data.v) = 3
    /\ Len(json_file.left_data.v[1].v) = 36
    /\ Len(json_file.left_data.v[2].v) = 35
    /\ Len(json_file.left_data.v[3].v) = 36
    /\ json_file.left_data.v[1] # json_file.left_data.v[3]
    /\ Len(json_file.left[6].gyro) = 2
    /\ Len(json_file.right[1].acc) = 1

\* C17: a persisted recording is identified uniquely and never changes: two
\* save_gesture calls of a session never produce the same filename, so every
\* write adds a file and leaves the files already there as they were.
C17_NeverOverwrites ==
    [][files' # files =>
          /\ files \subseteq files'
          /\ Cardinality(files') = Cardinality(files) + 1]_vars

RECURSIVE PathsOf(_)

\* The positions inside a structure, each as the indices that lead to it.
PathsOf(node) ==
    IF node.kind # "list" THEN {<< >>}
    ELSE {<< >>} \cup UNION {{<<i>> \o p : p \in PathsOf(node.v[i])} : i \in 1..Len(node.v)}

RECURSIVE NodeAt(_, _)

NodeAt(node, path) ==
    IF path = << >> THEN node ELSE NodeAt(node.v[Head(path)], Tail(path))

\* A list of 36 entries, each an integer or a float.
IsFrame36(node) ==
    /\ node.kind = "list"
    /\ Len(node.v) = 36
    /\ \A i \in 1..36 : node.v[i].kind \in {"int", "huge", "float"}

\* The positions of the frames found in a structure.
FramePaths(root) ==
    {p \in PathsOf(root) \ {<< >>} : IsFrame36(NodeAt(root, p))}

\* Position q comes before position p in depth-first order.
Before(q, p) ==
    \E k \in 1..Min(Len(q), Len(p)) :
        /\ q[k] < p[k]
        /\ \A j \in 1..(k - 1) : q[j] = p[j]

\* C20: flatten returns exactly the lists of 36 numeric entries found in the
\* structure, in depth-first original order, and drops every other leaf; every
\* frame it returns has length 36.
C20_FlattenFrames ==
    flat.stage = "done" =>
        LET found == FramePaths(flat.nested_list)
        IN  /\ Len(flat.result) = Cardinality(found)
            /\ \A p \in found :
                  flat.result[1 + Cardinality({q \in found : Before(q, p)})] =
                      NodeAt(flat.nested_list, p)
            /\ \A k \in 1..Len(flat.result) : Len(flat.result[k].v) = 36

C20_Witness ==
    /\ flat.stage = "done"
    /\ flat.nested_list.kind = "list"
    /\ Len(flat.nested_list.v) = 1
    /\ flat.nested_list.v[1].kind = "list"
    /\ Len(flat.nested_list.v[1].v) = 2
    /\ flat.nested_list.v[1].v[1].kind = "list"
    /\ Len(flat.nested_list.v[1].v[1].v) = 2
    /\ flat.nested_list.v[1].v[1].v[1].kind = "int"
    /\ flat.nested_list.v[1].v[1].v[2].kind = "list"
    /\ flat.nested_list.v[1].v[2].kind = "list"
    /\ Len(flat.nested_list.v[1].v[2].v) = 36
    /\ flat.nested_list.v[1].v[2].v[1].kind = "list"
    /\ Len(flat.result) = 2
    /\ flat.result[1] # flat.result[2]

\* The frames a recording holds of a hand.
StreamLength(recording, hand) ==
    IF hand = "Left" THEN Len(recording.left.v) ELSE Len(recording.right.v)

\* The positions of a table's converted columns of a hand.
ConvertedAt(df, hand) ==
    {n \in 1..Len(df.columns) :
        df.columns[n].suffix = (IF hand = "Left" THEN "_Left_Converted" ELSE "_Right_Converted")}

\* C18: for every pair of stream lengths, an empty left or an empty right
\* stream included, the comparison table has max(left, right) rows, the
\* converted columns of both hands are present, and each hand's columns hold
\* its values in its first rows and missing-value markers in the rest.
C18_PaddedTable ==
    \A k \in 1..Len(comparison.dfs) :
        LET df == comparison.dfs[k]
            recording == comparison.streams[k]
        IN  /\ df.num_rows = Max(StreamLength(recording, "Left"),
                                 StreamLength(recording, "Right"))
            /\ \A hand \in Hands :
                  /\ {[finger |-> df.columns[n].finger, comp |-> df.columns[n].comp] :
                          n \in ConvertedAt(df, hand)}
                       = {FrameKeys[c] : c \in 1..Len(FrameKeys)}
                  /\ \A n \in ConvertedAt(df, hand) :
                        /\ Len(df.cells[n]) = df.num_rows
                        /\ \A r \in 1..df.num_rows :
                              (df.cells[n][r].tag = "val") <=>
                                  (r <= StreamLength(recording, hand))

\* The comparison was run on as many files as it takes.
Compared ==
    /\ comparison.stage = "done"
    /\ Len(comparison.json_files) = comparison.way

\* The converted columns of the requested hand in the first table, in order.
Available ==
    LET df == comparison.dfs[1]
        at == ConvertedAt(df, comparison.hand)
    IN  [i \in 1..Cardinality(at) |->
            df.columns[CHOOSE n \in at : Cardinality({m \in at : m < n}) = i - 1]]

\* A comparison fails, writing no image, iff start < 1 or end > the number of
\* available columns or start > end; otherwise it selects the columns start..end.
RangeChecked ==
    Compared =>
        LET start == comparison.column_range[1]
            end == comparison.column_range[2]
        IN  /\ (~comparison.image.written) <=>
                   (start < 1 \/ end > Len(Available) \/ start > end)
            /\ comparison.image.written =>
                   /\ Len(comparison.image.selected_columns) = end - start + 1
                   /\ \A i \in 1..(end - start + 1) :
                         comparison.image.selected_columns[i] = Available[start + i - 1]

\* C19: a comparison with range (start, end) fails, writing no image, iff
\* start < 1 or end > the number of available converted columns of the
\* requested hand or start > end; otherwise it selects exactly the columns at
\* positions start..end and plots the same column labels in every subplot.
C19_RangeAndLabels ==
    /\ RangeChecked
    /\ (Compared /\ comparison.image.written) =>
           \A k \in 1..Len(comparison.image.subplots) :
               comparison.image.subplots[k] = comparison.image.selected_columns

\* ------------------------------------------------- claims: names and sessions

\* The characters a sanitized name may hold.
Allowed(c) ==
    \/ c \in {"a", "e", "g", "i", "n", "o", "r", "s", "M", "S", "Z", "0", "1", "7"}
    \/ c \in {"U+00E9", "U+4E2D"}
    \/ c \in {"_", "-"}

\* The positions of a name that survive: its spaces and its allowed characters.
Kept(name) == {i \in 1..Len(name) : name[i] = " " \/ Allowed(name[i])}

\* C21: sanitization replaces every space by an underscore and then removes
\* every character that is not alphanumeric, underscore or hyphen, keeping the
\* rest in order; "Morning Session #1" becomes "Morning_Session_1"; the result
\* holds only alphanumerics, underscores and hyphens, and sanitizing it again
\* changes nothing.
C21_Sanitized ==
    /\ sanitized.stage \in {"done", "again"} =>
          LET name == sanitized.name
              kept == Kept(name)
          IN  /\ Len(sanitized.result) = Cardinality(kept)
              /\ \A i \in kept :
                    sanitized.result[1 + Cardinality({j \in kept : j < i})] =
                        (IF name[i] = " " THEN "_" ELSE name[i])
              /\ \A k \in 1..Len(sanitized.result) : Allowed(sanitized.result[k])
              /\ name = MorningSession =>
                    sanitized.result =
                        <<"M", "o", "r", "n", "i", "n", "g", "_", "S", "e", "s", "s", "i",
                          "o", "n", "_", "1">>
    /\ sanitized.stage = "again" => sanitized.again = sanitized.result

C21_Witness ==
    /\ sanitized.stage = "again"
    /\ sanitized.name = <<" ", "#", "-">>
    /\ sanitized.again = <<"_", "-">>

C21_WitnessExample ==
    /\ sanitized.stage = "again"
    /\ sanitized.name = MorningSession

\* The label of a finger in a file name.
UnitLabel(finger) ==
    CASE finger = "IndexFinger" -> "Index" [] finger = "MiddleFinger" -> "Middle"
      [] finger = "RingFinger" -> "Ring" [] finger = "LittleFinger" -> "Little"
      [] finger = "Thumb" -> "Thumb" [] finger = "Palm" -> "Palm"

\* The unit labels of the selected columns.
UnitLabels ==
    {UnitLabel(comparison.image.selected_columns[n].finger) :
        n \in 1..Len(comparison.image.selected_columns)}

\* The sensor classes of the selected columns.
SensorClasses ==
    {IF comparison.image.selected_columns[n].comp \in {"AccX", "AccY", "AccZ"}
     THEN "Acc" ELSE "Gyro" : n \in 1..Len(comparison.image.selected_columns)}

\* The name of a written image has the hand, the unit labels, the sensor class
\* and the column range, and nothing else that varies.
NamedByTuple ==
    (Compared /\ comparison.image.written) =>
        LET name == comparison.image.filename
        IN  /\ name.hand = comparison.hand
            /\ {name.finger_str[i] : i \in 1..Len(name.finger_str)} = UnitLabels
            /\ name.sensor_type =
                   (IF SensorClasses = {"Acc"} THEN "Acc"
                    ELSE IF SensorClasses = {"Gyro"} THEN "Gyro" ELSE "Acc_Gyro")
            /\ name.cols = comparison.column_range
            /\ name.json_names = << >>

\* C22: the filename of a comparison image is derived from exactly the hand,
\* the unit-label set of the selected columns, their sensor-class label and the
\* column range, for the 2-way and the 4-way comparison alike.
C22_ImageName == NamedByTuple

\* The same for the 4-way comparison alone.
NamedByTuple4Way == comparison.way = 4 => NamedByTuple

\* What connect_glove has done so far is within the claim: at most retry_count
\* attempts, none after one that ended connected; True is returned right after
\* an attempt that ended connected, False after retry_count failed attempts.
BoundedAttempts ==
    LET outcomes == connecting.outcomes
        made == Len(outcomes)
    IN  /\ made <= connecting.retry_count
        /\ \A k \in 1..(made - 1) : outcomes[k] # "connected"
        /\ connecting.pc = "returned" =>
              IF connecting.result
              THEN made >= 1 /\ outcomes[made] = "connected"
              ELSE /\ made = connecting.retry_count
                   /\ \A k \in 1..made : outcomes[k] # "connected"

\* C23: connect_glove makes at most retry_count attempts and always returns,
\* returning True as soon as one attempt ends connected and False once
\* retry_count attempts have failed, by error or by not being connected.
C23_BoundedRetries ==
    /\ [](connecting.pc # "idle" => BoundedAttempts)
    /\ (connecting.pc = "called") ~> (connecting.pc = "returned")

C23_Witness ==
    /\ connecting.pc = "returned"
    /\ connecting.result
    /\ connecting.outcomes = <<"not_connected", "error", "connected">>
    /\ connecting.retry_count = 4

C23_WitnessFailed ==
    /\ connecting.pc = "returned"
    /\ ~connecting.result
    /\ connecting.outcomes = <<"error_connected", "not_connected", "error">>

\* C24: setup_and_connect proceeds to the connect step only when the scan of
\* that same call identified both a Left and a Right glove; gloves remembered
\* from an earlier session never satisfy the both-gloves check after a
\* disconnect and a failed scan.
C24_ConnectOnlyAfterScan ==
    session.connect_step # "none" =>
        /\ Len(session.scans) >= 1
        /\ session.scans[Len(session.scans)] = "both"

\* The same for the first setup call, when no glove is remembered.
FirstSetupChecked == session.calls = 1 => C24_ConnectOnlyAfterScan

\* ------------------------------------------------- claims: button handling

\* No handle_button_press invocation is between its first command write and
\* the update of recording_active.
NoWriteInFlight ==
    \A t \in 1..MaxTasks :
        tasks[t].pc \notin {"start_left", "start_right", "stop_left", "stop_right"}

\* C25: whenever recording_active is true both gloves have is_recording true,
\* and whenever it is false after a stop has completed both gloves have
\* is_recording false, also when a start or stop command write fails.
C25_FlagMatchesGloves ==
    NoWriteInFlight =>
        \A h \in Hands : glove[h].is_recording = recording_active

\* The invocations that have been accepted, are past the debounce, and have
\* not yet updated recording_active.
WritingTasks ==
    {t \in 1..MaxTasks :
        tasks[t].pc \in {"start_left", "start_right", "stop_left", "stop_right"}}

\* C26: while one handle_button_press invocation is suspended at an await, a
\* second accepted press cannot observe the not-yet-updated recording_active
\* flag: accepted presses alternate start, stop, start, ..., so there are never
\* two invocations that were both accepted on the same value of the flag and
\* have not updated it yet (two starts, the second clearing the buffers of the
\* recording the first is starting, or two stops).
C26_NoReentry == Cardinality(WritingTasks) <= 1

\* The step is a control notification that called handle_button_press.
Pressed == last_notify'.kind = "control" /\ last_notify'.callback

\* A press less than 1.0 s after the last accepted one changes no state, the
\* last-accepted time included; any other press is accepted.
Debounced ==
    Pressed =>
        IF now - last_button_time < DEBOUNCE_TICKS
        THEN UNCHANGED <<codec_vars, plot_vars, ble_vars, tool_vars>>
        ELSE /\ last_button_time' = now
             /\ \E t \in 1..MaxTasks :
                   /\ tasks[t].pc = "idle"
                   /\ tasks'[t].pc = IF recording_active THEN "stop_left" ELSE "start_left"

\* The invocation that writes recording_active changes its value.
Flips ==
    \A t \in 1..MaxTasks :
        (tasks[t].pc \in {"start_right", "stop_right"} /\ tasks'[t].pc # tasks[t].pc) =>
            recording_active' # recording_active

DebounceHolds == [][Debounced]_vars

\* C27: a button press arriving less than 1.0 s after the last accepted press
\* changes no state at all, not even the last-accepted time; every other press
\* is accepted and flips recording_active exactly once.
C27_DebounceAndFlip == [][Debounced /\ Flips]_vars

\* C28: after any sequence of gesture stops in one session the app's
\* gesture_counter equals the DataProcessor's gesture_count, so that the
\* gesture_number of the next record is gesture_counter + 1 and no file holds a
\* higher number than the files counted, also after a failed write.
C28_CountersAgree ==
    /\ gesture_counter = gesture_count
    /\ \A f \in files : f.gesture_number <= gesture_counter

\* C29: while a glove is recording, its frame_count equals the length of its
\* data_buffer after every data notification, for every sequence of button
\* presses, command-write outcomes and data notifications.
C29_CountIsLength ==
    [][\A h \in Hands :
          (sent'[h] = sent[h] + 1 /\ glove'[h].is_recording) =>
              glove'[h].frame_count = Len(glove'[h].data_buffer)]_vars

\* C30: a stop at which both gloves' buffers are empty saves nothing: no file
\* is written and neither gesture counter changes; a stop at which at least one
\* buffer is non-empty attempts exactly one save, which holds both buffers as
\* they were when the stop took them.
C30_SaveAtStop ==
    [][\A t \in 1..MaxTasks :
          (tasks[t].pc = "sleep" /\ tasks'[t].pc = "idle") =>
              LET left_data  == glove["Left"].data_buffer
                  right_data == glove["Right"].data_buffer
              IN  IF left_data = << >> /\ right_data = << >>
                  THEN /\ files' = files
                       /\ gesture_counter' = gesture_counter
                       /\ gesture_count' = gesture_count
                  ELSE /\ gesture_count' = gesture_count + 1
                       /\ \/ /\ files' = files
                             /\ gesture_counter' = gesture_counter
                          \/ /\ gesture_counter' = gesture_counter + 1
                             /\ \E f \in files' :
                                   /\ f.left = left_data
                                   /\ f.right = right_data
                                   /\ f.gesture_number = gesture_count + 1
                                   /\ files' \ {f} \subseteq files]_vars

C30_Witness ==
    \E f \in files :
        /\ Len(f.left) >= 1
        /\ Len(f.right) >= 1
        /\ gesture_counter = 1

====
